---- MODULE Spec2Model ----
(***************************************************************************)
(* Verification model of Eddie's Print Engine (KeschFlow/eddies-print-     *)
(* engine): the KDP preflight padding (kern/kdp_preflight.py), the session *)
(* LRU caches of the wash and sketch stages, the quest schedule and the    *)
(* seeds of a build (app.py).                                              *)
(*                                                                         *)
(* The module holds several specifications over one set of variables; each *)
(* specification drives one component and leaves the variables of the      *)
(* others at their idle values.                                            *)
(***************************************************************************)
EXTENDS Integers, Sequences, FiniteSets, TLC

VARIABLES
    \* ---- preflight (kern/kdp_preflight.py) ----
    pages,        \* the caller's page list (or None) handed to ensure_min_pages
    min_pages,    \* the min_pages argument
    out,          \* the list ensure_min_pages returned
    calls,        \* page numbers make_reflection_page was called with, in order
    out2,         \* the list returned when ensure_min_pages is applied to `out`
    calls2,       \* factory calls of that second application
    pf_pc         \* "ready" | "returned" | "reapplied"

VARIABLES
    \* ---- a bounded result cache on its own (app.py, _get_lru/_lru_put) ----
    lru,          \* the OrderedDict: entries [k, v], oldest first
    lru_cap,      \* its max_items
    lru_hist,     \* the operations issued so far, <<"put", key>> or <<"get", key>>
    lru_use,      \* key -> time of its last use (insertion or hit), 0 = never
    lru_evicted   \* the keys the last operation evicted, in eviction order

VARIABLES
    \* ---- the session caches of the wash and sketch stages (app.py) ----
    wash_cache,   \* st.session_state["wash_cache"]: sha256(raw) -> washed bytes
    sketch_cache, \* st.session_state["sketch_cache"]: (sha256, w, h) -> sketch
    last,         \* per function ("wash", "sketch"): the record of its last call
    c_next,       \* number of requests of the client's sweep issued so far
    c_pending,    \* the washed bytes that await their sketch call, or none
    c_extra,      \* number of requests outside the sweep issued so far
    c_note,       \* the last request: <<function, "sweep" | "repeat" | "oldest" | ...>>
    c_drops       \* how often the session state lost a cache so far

VARIABLES
    \* ---- build_book_schedule (app.py) ----
    s_seed,       \* the seed argument
    s_start,      \* the start_hour argument
    s_count,      \* the count argument
    s_i,          \* the loop index i: number of slots filled so far
    s_rng,        \* the state of rng
    s_used,       \* used_ids
    s_sched,      \* schedule: hour -> id of the picked quest
    s_picks,      \* the ids picked, slot by slot (picked of each iteration)
    s_pc,         \* "loop" | "done" | "error" | "rerun"
    s_rerun       \* a second call with the same seed: its arguments and result

VARIABLES
    \* ---- builds of one session (app.py, the button handler) ----
    b_in,         \* per build: the name, the paper and the uploads the user entered
    b_nonce,      \* per build: the nonce _new_build_nonce drew (0 = none yet)
    b_res,        \* per build: what build_interior did
    b_done,       \* number of builds run so far
    b_assets,     \* st.session_state.assets: the documents of the last good build
    b_log         \* rows of the builds table for this client (_log_build)

VARIABLES
    \* ---- the quest database (quest_data.py) ----
    q_zones,      \* ZONES, the table the module was loaded with
    q_map,        \* _HOUR_TO_ZONE, computed when the module is loaded
    q_call,       \* the last call of the public API and what it returned
    q_colors      \* the header colours app.py asked for, call by call

VARIABLES
    \* ---- cover builders and page geometry ----
    cv_calls,     \* the covers built so far, in order: what each call drew
    ps_call       \* the call of get_page_spec and the PageSpec it returned

VARIABLES
    \* ---- the trainer export (kern/export_orchestrator.py) ----
    x_call        \* the call of run_export: its arguments and what came of it

VARIABLES
    \* ---- sessions running side by side, each with its caches ----
    ss_state,     \* per session: st.session_state, the wash and the sketch cache
    ss_pc,        \* per session: where its script is inside a cached call
    ss_pos,       \* per session: the number of requests begun
    ss_len,       \* per session: the number of requests it sends
    ss_last       \* per session: the last cached call that returned or raised

VARIABLES
    \* ---- the index selection of the cover collage (cover_collage.py) ----
    pk_args,      \* the arguments of the call of _pick_indices
    pk_out,       \* out, the indices chosen so far
    pk_i,         \* i, the loop counter (modulo 2 * n_total)
    pk_pc,        \* "start", "loop" or "done"
    pk_result     \* what the call returned

VARIABLES
    \* ---- the fair-use limit of one client (app.py) ----
    qt_now,       \* time.time(), in hours
    qt_log,       \* the timestamps of the client's rows in the builds table
    qt_pass,      \* the client's community pass, "" if it has none
    qt_run        \* per session: where its script run is, and builds_used

pf_vars == <<pages, min_pages, out, calls, out2, calls2, pf_pc>>
lru_vars == <<lru, lru_cap, lru_hist, lru_use, lru_evicted>>

cache_vars == <<wash_cache, sketch_cache, last, c_next, c_pending, c_extra, c_note, c_drops>>

sched_vars == <<s_seed, s_start, s_count, s_i, s_rng, s_used, s_sched, s_picks, s_pc, s_rerun>>

build_vars == <<b_in, b_nonce, b_res, b_done, b_assets, b_log>>

quest_vars == <<q_zones, q_map, q_call, q_colors>>

cover_vars == <<cv_calls, ps_call>>

export_vars == <<x_call>>

session_vars == <<ss_state, ss_pc, ss_pos, ss_len, ss_last>>

pick_vars == <<pk_args, pk_out, pk_i, pk_pc, pk_result>>

quota_vars == <<qt_now, qt_log, qt_pass, qt_run>>

vars == <<pf_vars, lru_vars, cache_vars, sched_vars, build_vars, quest_vars, cover_vars, export_vars, session_vars, pick_vars, quota_vars>>

\* what an action of one component leaves alone: the other components
NotPreflight == <<quota_vars, pick_vars, session_vars, export_vars, lru_vars, cache_vars, sched_vars, build_vars, quest_vars, cover_vars>>
NotLru == <<quota_vars, pick_vars, session_vars, export_vars, pf_vars, cache_vars, sched_vars, build_vars, quest_vars, cover_vars>>
NotCache == <<quota_vars, pick_vars, session_vars, export_vars, pf_vars, lru_vars, sched_vars, build_vars, quest_vars, cover_vars>>
NotSched == <<quota_vars, pick_vars, session_vars, export_vars, pf_vars, lru_vars, cache_vars, build_vars, quest_vars, cover_vars>>
NotBuild ==
    <<quota_vars, pick_vars, session_vars, export_vars, pf_vars, lru_vars, sched_vars, quest_vars, cover_vars, last, c_next, c_pending, c_extra, c_note, c_drops>>
NotCover == <<quota_vars, pick_vars, session_vars, export_vars, pf_vars, lru_vars, cache_vars, sched_vars, build_vars, quest_vars>>
NotQuest == <<quota_vars, pick_vars, session_vars, export_vars, pf_vars, lru_vars, cache_vars, sched_vars, build_vars, cover_vars>>
NotExport == <<quota_vars, pick_vars, session_vars, pf_vars, lru_vars, cache_vars, sched_vars, build_vars, quest_vars, cover_vars>>
NotSessions == <<quota_vars, pick_vars, pf_vars, lru_vars, cache_vars, sched_vars, build_vars, quest_vars, cover_vars, export_vars>>
NotPick == <<quota_vars, pf_vars, lru_vars, cache_vars, sched_vars, build_vars, quest_vars, cover_vars, export_vars, session_vars>>
NotQuota == <<pf_vars, lru_vars, cache_vars, sched_vars, build_vars, quest_vars, cover_vars, export_vars, session_vars, pick_vars>>

(***************************************************************************)
(* Small helpers.                                                          *)
(***************************************************************************)
Range(s) == {s[i] : i \in 1..Len(s)}

SeqsUpTo(S, n) == UNION {[1..k -> S] : k \in 0..n}

IsPrefix(s, t) == Len(s) <= Len(t) /\ \A i \in 1..Len(s) : s[i] = t[i]

(***************************************************************************)
(* PREFLIGHT: kern/kdp_preflight.py                                        *)
(***************************************************************************)
\* bounds of the preflight inputs
MaxPages == 3
MaxPageId == 2
MaxMin == 5

\* the default of the min_pages keyword (KDP minimum)
DEFAULT_MIN_PAGES == 24

\* the size of the spec's worked example ([p1..p10], min 24)
ExamplePages == 10

\* A Python value that is either None or a list.
PyNone == [none |-> TRUE, list |-> <<>>]
PyList(l) == [none |-> FALSE, list |-> l]

\* an existing page function of the caller
Page(i) == [kind |-> "page", id |-> i]

\* the filler factory: the page it builds carries the page number it was given
make_reflection_page(page_no) == [kind |-> "reflection", page_no |-> page_no]

\* `pages or []`: None and the empty list are falsy
OrEmpty(p) == IF p.none \/ p.list = <<>> THEN <<>> ELSE p.list

\* `list(pages or [])` builds a new list: appending to it leaves the
\* argument alone.  The result records the argument as it is after the call.
ListCopy_Aliased(p) == [list |-> OrEmpty(p), aliased |-> ~p.none /\ p.list # <<>>]
ListCopy(p) == [list |-> OrEmpty(p), aliased |-> FALSE]

\* early return when nothing is to be done: min_pages <= 0 or n >= min_pages
Sufficient(n, m) == m <= 0 \/ n >= m

\* page number of the k-th loop iteration (k = 0..needed-1)
PageNo_ZeroBased(start_idx, k) == start_idx + k - 1
PageNo(start_idx, k) == start_idx + k

\* for k in range(needed): out.append(make_reflection_page(start_idx + k))
RECURSIVE FillLoop(_, _, _, _, _)
FillLoop(o, c, k, needed, start_idx) ==
    IF k >= needed THEN [out |-> o, calls |-> c]
    ELSE FillLoop(Append(o, make_reflection_page(PageNo(start_idx, k))),
                  Append(c, PageNo(start_idx, k)),
                  k + 1, needed, start_idx)

\* a variant that normalises the list to exactly min_pages entries
ensure_min_pages_Exact(p, m) ==
    LET o0 == OrEmpty(p)
        n == Len(o0)
        r == IF m <= 0 THEN [out |-> o0, calls |-> <<>>]
             ELSE IF n >= m THEN [out |-> SubSeq(o0, 1, m), calls |-> <<>>]
             ELSE FillLoop(o0, <<>>, 0, m - n, n + 1)
    IN  [out |-> r.out, calls |-> r.calls, arg |-> p]

\* ensure_min_pages(pages, min_pages=m, make_reflection_page=...):
\* the returned list, the factory calls made, and the argument after the call
ensure_min_pages(p, m) ==
    LET cp == ListCopy(p)
        o0 == cp.list
        n == Len(o0)
        r == IF Sufficient(n, m)
             THEN [out |-> o0, calls |-> <<>>]
             ELSE FillLoop(o0, <<>>, 0, m - n, n + 1)
    IN  [out |-> r.out,
         calls |-> r.calls,
         arg |-> IF cp.aliased THEN PyList(r.out) ELSE p]

PageLists ==
    {PyList(l) : l \in SeqsUpTo({Page(i) : i \in 1..MaxPageId}, MaxPages)}
    \cup {PyList([i \in 1..ExamplePages |-> Page(i)]), PyNone}

MinPagesInputs == (-1..MaxMin) \cup {DEFAULT_MIN_PAGES}

InitPreflightIdle ==
    /\ pages = PyNone
    /\ min_pages = 0
    /\ out = <<>>
    /\ calls = <<>>
    /\ out2 = <<>>
    /\ calls2 = <<>>
    /\ pf_pc = "idle"

InitPreflight ==
    /\ pages \in PageLists
    /\ min_pages \in MinPagesInputs
    /\ out = <<>>
    /\ calls = <<>>
    /\ out2 = <<>>
    /\ calls2 = <<>>
    /\ pf_pc = "ready"

\* the caller invokes ensure_min_pages on its list
CallEnsureMinPages ==
    /\ pf_pc = "ready"
    /\ LET r == ensure_min_pages(pages, min_pages)
       IN  /\ out' = r.out
           /\ calls' = r.calls
           /\ pages' = r.arg
    /\ pf_pc' = "returned"
    /\ UNCHANGED <<min_pages, out2, calls2>>
    /\ UNCHANGED NotPreflight

\* the caller feeds the result to ensure_min_pages again, same min_pages
ReapplyEnsureMinPages ==
    /\ pf_pc = "returned"
    /\ LET r == ensure_min_pages(PyList(out), min_pages)
       IN  /\ out2' = r.out
           /\ calls2' = r.calls
           /\ out' = r.arg.list
    /\ pf_pc' = "reapplied"
    /\ UNCHANGED <<pages, min_pages, calls>>
    /\ UNCHANGED NotPreflight

NextPreflight == CallEnsureMinPages \/ ReapplyEnsureMinPages

(***************************************************************************)
(* BOUNDED RESULT CACHE: app.py, _get_lru / _lru_put and the lookups of    *)
(* _wash_upload_to_bytes and _get_sketch_cached.  An OrderedDict is a      *)
(* sequence of entries [k, v] with distinct keys, oldest first.            *)
(***************************************************************************)
Keys(od) == {od[i].k : i \in 1..Len(od)}

\* `key in od`
Contains(od, key) == \E i \in 1..Len(od) : od[i].k = key

IndexOf(od, key) == CHOOSE i \in 1..Len(od) : od[i].k = key

\* `od[key]` for a key that is present
Lookup(od, key) == od[IndexOf(od, key)].v

RemoveAt(od, i) == SubSeq(od, 1, i - 1) \o SubSeq(od, i + 1, Len(od))

\* `od.move_to_end(key)`: the entry becomes the last (most recently used)
move_to_end(od, key) ==
    LET i == IndexOf(od, key) IN Append(RemoveAt(od, i), od[i])

\* `od[key] = value`: a present key keeps its position, a new key goes last
SetItem(od, key, value) ==
    IF Contains(od, key)
    THEN [od EXCEPT ![IndexOf(od, key)] = [k |-> key, v |-> value]]
    ELSE Append(od, [k |-> key, v |-> value])

\* `od.popitem(last=False)`: drop the first (oldest) entry
popitem_Newest(od) == SubSeq(od, 1, Len(od) - 1)
popitem(od) == Tail(od)

\* `while len(od) > max_items: od.popitem(last=False)`
RECURSIVE EvictLoop(_, _)
EvictLoop_OffByOne(od, max_items) ==
    IF Len(od) > max_items + 1 THEN EvictLoop(popitem(od), max_items) ELSE od
EvictLoop(od, max_items) ==
    IF Len(od) > max_items THEN EvictLoop(popitem(od), max_items) ELSE od

\* _lru_put(od, key, value, max_items)
_lru_put_NoStore(od, key, value, max_items) == od
_lru_put(od, key, value, max_items) ==
    EvictLoop(move_to_end(SetItem(od, key, value), key), max_items)

\* the hit branch of a lookup: `od.move_to_end(key); return od[key]`
LruHit_NoPromote(od, key) == od
LruHit(od, key) == move_to_end(od, key)

\* the keys of `before` that are gone in `after`, in their order in `before`
Evicted(before, after) ==
    LET kept == Keys(after)
    IN  SelectSeq([i \in 1..Len(before) |-> before[i].k], LAMBDA k : k \notin kept)

\* bounds of the stand-alone cache
MaxKeys == 4
MaxCap == 2
MaxOps == 4

LruKeys == 1..MaxKeys

\* the blob stored for a key
Blob(key) == <<"blob", key>>

InitLruIdle ==
    /\ lru = <<>>
    /\ lru_cap = 0
    /\ lru_hist = <<>>
    /\ lru_use = <<>>
    /\ lru_evicted = <<>>

\* _get_lru(name, max_items): a fresh, empty OrderedDict
InitLru ==
    /\ lru = <<>>
    /\ lru_cap \in 1..MaxCap
    /\ lru_hist = <<>>
    /\ lru_use = [k \in LruKeys |-> 0]
    /\ lru_evicted = <<>>

\* get(key): a hit promotes the entry, a miss changes nothing
LruGet(key) ==
    /\ Len(lru_hist) < MaxOps
    /\ lru_hist' = Append(lru_hist, <<"get", key>>)
    /\ IF Contains(lru, key)
       THEN /\ lru' = LruHit(lru, key)
            /\ lru_use' = [lru_use EXCEPT ![key] = Len(lru_hist) + 1]
       ELSE UNCHANGED <<lru, lru_use>>
    /\ lru_evicted' = <<>>
    /\ UNCHANGED lru_cap
    /\ UNCHANGED NotLru

\* put(key, value) = _lru_put(od, key, value, max_items)
LruPut(key) ==
    /\ Len(lru_hist) < MaxOps
    /\ lru_hist' = Append(lru_hist, <<"put", key>>)
    /\ lru' = _lru_put(lru, key, Blob(key), lru_cap)
    /\ lru_use' = [lru_use EXCEPT ![key] = Len(lru_hist) + 1]
    /\ lru_evicted' = Evicted(SetItem(lru, key, Blob(key)), lru')
    /\ UNCHANGED lru_cap
    /\ UNCHANGED NotLru

NextLru == \E key \in LruKeys : LruGet(key) \/ LruPut(key)

(***************************************************************************)
(* WASH AND SKETCH: app.py, _read_upload_bytes .. _get_sketch_cached, and  *)
(* image_wash.py.  Byte strings are records: what they encode and how long *)
(* they are.                                                               *)
(***************************************************************************)
MAX_UPLOAD_BYTES == 12 * 1024 * 1024
MAX_WASH_CACHE == 64
MAX_SKETCH_CACHE == 256

\* b"": the empty byte string
EmptyBytes ==
    [len |-> 0, kind |-> "empty", img |-> 0, enc |-> "none", px |-> "ok", w |-> 0, h |-> 0]

\* an image file: picture img, stored in encoding enc
ImageBytes(img, enc) ==
    [len |-> 1000 + img, kind |-> "image", img |-> img, enc |-> enc, px |-> "ok", w |-> 0, h |-> 0]

\* an image file of more than 25 megapixels
OverPixelBytes(img, enc) == [ImageBytes(img, enc) EXCEPT !.px = "over"]

\* a file of more than 12 MB
HugeBytes(img, enc) == [ImageBytes(img, enc) EXCEPT !.len = MAX_UPLOAD_BYTES + 1]

\* bytes that are no image
CorruptBytes ==
    [len |-> 7, kind |-> "corrupt", img |-> 0, enc |-> "none", px |-> "ok", w |-> 0, h |-> 0]

\* an uploaded file: getvalue()/read() deliver its data, or both fail
Upload(data) == [readable |-> TRUE, data |-> data]
UnreadableUpload == [readable |-> FALSE, data |-> EmptyBytes]

Raise(msg) == [ok |-> FALSE, val |-> EmptyBytes, err |-> msg]
Return(b) == [ok |-> TRUE, val |-> b, err |-> ""]

\* hashlib.sha256(b).hexdigest(): the fingerprint of the bytes (collision free)
sha256(b) == <<"sha256", b>>

\* _read_upload_bytes(up)
_read_upload_bytes(up) ==
    LET b == IF up.readable THEN up.data ELSE EmptyBytes
    IN  IF b.len > MAX_UPLOAD_BYTES THEN Raise("Upload zu gross") ELSE Return(b)

\* image_wash.wash_image_bytes(b): decode, transpose, clamp, RGB, re-encode
\* as JPEG; the picture stays, its encoding and length become canonical
wash_image_bytes(b) ==
    IF b.len = 0 THEN Raise("empty image bytes")
    ELSE IF b.kind # "image" THEN Raise("cannot identify image file")
    ELSE Return([len |-> 900 + b.img, kind |-> "image", img |-> b.img,
                 enc |-> "jpeg95", px |-> b.px, w |-> 0, h |-> 0])

\* _wash_bytes(raw)
_wash_bytes(raw) ==
    IF raw.len = 0 THEN Raise("empty upload") ELSE wash_image_bytes(raw)

\* _sketch_compute(img_bytes, target_w, target_h)
_sketch_compute(img_bytes, target_w, target_h) ==
    IF img_bytes.kind # "image" THEN Raise("OpenCV decode failed")
    ELSE IF img_bytes.px = "over" THEN Raise("Bildaufloesung zu gross")
    ELSE Return([len |-> 500 + img_bytes.img, kind |-> "sketch", img |-> img_bytes.img,
                 enc |-> "png1", px |-> "ok", w |-> target_w, h |-> target_h])

\* What a cached call did: its result, the cache after it, its key, whether
\* the transform was invoked, and the keys it evicted.
CallResult(r, cache_before, cache_after, key, ran, inserted) ==
    [ok |-> r.ok, ret |-> r.val, err |-> r.err, cache |-> cache_after, key |-> key,
     ran |-> ran, inserted |-> inserted,
     before |-> Len(cache_before),
     evicted |-> Evicted(cache_before, cache_after)]

\* _wash_upload_to_bytes, were it to store what the wash returned before
\* looking at it
_wash_upload_to_bytes_CacheError(wc, up) ==
    LET rd == _read_upload_bytes(up)
        raw == rd.val
        h == sha256(raw)
        w == _wash_bytes(raw)
    IN  IF ~rd.ok THEN CallResult(rd, wc, wc, h, FALSE, FALSE)
        ELSE IF Contains(wc, h)
        THEN CallResult(Return(Lookup(LruHit(wc, h), h)), wc, LruHit(wc, h), h, FALSE, FALSE)
        ELSE CallResult(w, wc, _lru_put(wc, h, w.val, MAX_WASH_CACHE), h, raw.len # 0, w.ok)

\* _wash_upload_to_bytes(up), on the session's wash cache wc
_wash_upload_to_bytes(wc, up) ==
    LET rd == _read_upload_bytes(up)
        raw == rd.val
        h == sha256(raw)
    IN  IF ~rd.ok THEN CallResult(rd, wc, wc, h, FALSE, FALSE)
        ELSE IF Contains(wc, h)
        THEN LET wc1 == LruHit(wc, h)
             IN  CallResult(Return(Lookup(wc1, h)), wc, wc1, h, FALSE, FALSE)
        ELSE LET w == _wash_bytes(raw)
             IN  IF ~w.ok THEN CallResult(w, wc, wc, h, raw.len # 0, FALSE)
                 ELSE CallResult(w, wc, _lru_put(wc, h, w.val, MAX_WASH_CACHE),
                                 h, TRUE, TRUE)

\* the cache key of a sketch: (sha256(img_bytes), int(target_w), int(target_h))
SketchKey_NoSize(img_bytes, target_w, target_h) == <<sha256(img_bytes), 0, 0>>
SketchKey(img_bytes, target_w, target_h) == <<sha256(img_bytes), target_w, target_h>>

\* _get_sketch_cached(img_bytes, target_w, target_h), on the sketch cache
_get_sketch_cached(cache, img_bytes, target_w, target_h) ==
    LET key == SketchKey(img_bytes, target_w, target_h)
    IN  IF Contains(cache, key)
        THEN LET c1 == LruHit(cache, key)
             IN  CallResult(Return(Lookup(c1, key)), cache, c1, key, FALSE, FALSE)
        ELSE LET o == _sketch_compute(img_bytes, target_w, target_h)
             IN  IF ~o.ok THEN CallResult(o, cache, cache, key, TRUE, FALSE)
                 ELSE CallResult(o, cache, _lru_put(cache, key, o.val, MAX_SKETCH_CACHE),
                                 key, TRUE, TRUE)

(***************************************************************************)
(* The client of the caches.  It sweeps over pictures 1, 2, ... and asks   *)
(* for each picture's sketch in every target size (the wash of the upload, *)
(* then the sketch of the washed bytes, as build_interior does per page),  *)
(* long enough to fill both caches beyond their capacity.  Between two     *)
(* sweep requests it may issue a few requests outside the sweep: a repeat  *)
(* of the last input, the input whose entry is the oldest of a full cache, *)
(* that picture in another encoding, and inputs that fail.                 *)
(***************************************************************************)
\* bounds of the client
MaxSweep == 258
MaxExtra == 1

\* the target sides the client asks for: the 8.75 inch page at 300 dpi
\* (int(pb_w * DPI / 72) = 2625) and a smaller preview size
Sides == <<2625, 1200>>
NSizes == Len(Sides) * Len(Sides)

\* the j-th request of the sweep: picture and target size
SweepImg(j) == ((j - 1) \div NSizes) + 1
SweepW(j) == Sides[(((j - 1) % NSizes) \div Len(Sides)) + 1]
SweepH(j) == Sides[((j - 1) % Len(Sides)) + 1]

NoPending == [set |-> FALSE, img_bytes |-> EmptyBytes, w |-> 0, h |-> 0]

NoWashCall ==
    [n |-> 0, input |-> UnreadableUpload, key |-> sha256(EmptyBytes),
     ok |-> FALSE, ret |-> EmptyBytes, ran |-> FALSE, inserted |-> FALSE,
     before |-> 0, evicted |-> <<>>]

NoSketchCall ==
    [n |-> 0, input |-> <<EmptyBytes, 0, 0>>, key |-> <<sha256(EmptyBytes), 0, 0>>,
     ok |-> FALSE, ret |-> EmptyBytes, ran |-> FALSE, inserted |-> FALSE,
     before |-> 0, evicted |-> <<>>]

CallRecord(n, input, r) ==
    [n |-> n, input |-> input, key |-> r.key, ok |-> r.ok, ret |-> r.ret,
     ran |-> r.ran, inserted |-> r.inserted, before |-> r.before,
     evicted |-> r.evicted]

InitCacheIdle ==
    /\ wash_cache = <<>>
    /\ sketch_cache = <<>>
    /\ last = <<>>
    /\ c_next = 0
    /\ c_pending = NoPending
    /\ c_extra = 0
    /\ c_note = <<"none", "idle">>
    /\ c_drops = 0

\* the script start: _get_lru creates both caches empty
InitCache ==
    /\ wash_cache = <<>>
    /\ sketch_cache = <<>>
    /\ last = [wash |-> NoWashCall, sketch |-> NoSketchCall]
    /\ c_next = 0
    /\ c_pending = NoPending
    /\ c_extra = 0
    /\ c_note = <<"none", "start">>
    /\ c_drops = 0

\* one call of _wash_upload_to_bytes(up)
DoWash(up, note) ==
    LET r == _wash_upload_to_bytes(wash_cache, up)
    IN  /\ wash_cache' = r.cache
        /\ last' = [last EXCEPT !.wash = CallRecord(last.wash.n + 1, up, r)]
        /\ c_note' = <<"wash", note>>
        /\ UNCHANGED sketch_cache

\* one call of _get_sketch_cached(img_bytes, w, h)
DoSketch(img_bytes, w, h, note) ==
    LET r == _get_sketch_cached(sketch_cache, img_bytes, w, h)
    IN  /\ sketch_cache' = r.cache
        /\ last' = [last EXCEPT !.sketch =
                        CallRecord(last.sketch.n + 1, <<img_bytes, w, h>>, r)]
        /\ c_note' = <<"sketch", note>>
        /\ UNCHANGED wash_cache

\* sweep, first half: wash the upload of the next request
SweepWash ==
    /\ ~c_pending.set
    /\ c_next < MaxSweep
    /\ LET j == c_next + 1
           up == Upload(ImageBytes(SweepImg(j), "jpg"))
           r == _wash_upload_to_bytes(wash_cache, up)
       IN  /\ DoWash(up, "sweep")
           /\ c_pending' = [set |-> r.ok, img_bytes |-> r.ret,
                            w |-> SweepW(j), h |-> SweepH(j)]
    /\ c_next' = c_next + 1
    /\ UNCHANGED <<c_extra, c_drops>>
    /\ UNCHANGED NotCache

\* sweep, second half: sketch the washed bytes in the requested size
SweepSketch ==
    /\ c_pending.set
    /\ DoSketch(c_pending.img_bytes, c_pending.w, c_pending.h, "sweep")
    /\ c_pending' = NoPending
    /\ UNCHANGED <<c_next, c_extra, c_drops>>
    /\ UNCHANGED NotCache

\* the uploads the client may send outside the sweep
ExtraUploads ==
    {<<"empty", Upload(EmptyBytes)>>,
     <<"corrupt", Upload(CorruptBytes)>>,
     <<"huge", Upload(HugeBytes(1, "jpg"))>>,
     <<"unreadable", UnreadableUpload>>}
    \cup (IF last.wash.n > 0 THEN {<<"repeat", last.wash.input>>} ELSE {})
    \cup (IF Len(wash_cache) = MAX_WASH_CACHE
          THEN {<<"oldest", Upload(wash_cache[1].k[2])>>,
                <<"variant", Upload(ImageBytes(wash_cache[1].k[2].img, "png"))>>}
          ELSE {})

ExtraWash ==
    /\ ~c_pending.set
    /\ c_extra < MaxExtra
    /\ \E x \in ExtraUploads : DoWash(x[2], x[1])
    /\ c_extra' = c_extra + 1
    /\ UNCHANGED <<c_next, c_pending, c_drops>>
    /\ UNCHANGED NotCache

\* the sketch requests the client may send outside the sweep
ExtraSketches ==
    {<<"empty", <<EmptyBytes, Sides[1], Sides[1]>> >>,
     <<"overpixel", <<OverPixelBytes(1, "jpeg95"), Sides[1], Sides[1]>> >>}
    \cup (IF last.sketch.n > 0 THEN {<<"repeat", last.sketch.input>>} ELSE {})
    \cup (IF Len(sketch_cache) = MAX_SKETCH_CACHE
          THEN {<<"oldest", <<sketch_cache[1].k[1][2],
                             sketch_cache[1].k[2], sketch_cache[1].k[3]>> >>}
          ELSE {})

ExtraSketch ==
    /\ ~c_pending.set
    /\ c_extra < MaxExtra
    /\ \E x \in ExtraSketches : DoSketch(x[2][1], x[2][2], x[2][3], x[1])
    /\ c_extra' = c_extra + 1
    /\ UNCHANGED <<c_next, c_pending, c_drops>>
    /\ UNCHANGED NotCache

NextCache == SweepWash \/ SweepSketch \/ ExtraWash \/ ExtraSketch

\* ---- a session that loses its caches ----
\* bounds: how often a cache is lost, and how far from the start or the end
\* of the sweep
MaxDrops == 1
MaxDropAt == 3

\* st.session_state no longer holds the OrderedDict of a cache (the state was
\* reset): _get_lru finds none and creates an empty one
DropCache ==
    /\ c_drops < MaxDrops
    /\ c_next <= MaxDropAt \/ c_next >= MaxSweep - MaxDropAt
    /\ \E lost \in {"wash_cache", "sketch_cache", "both"} :
          /\ wash_cache' = IF lost = "sketch_cache" THEN wash_cache ELSE <<>>
          /\ sketch_cache' = IF lost = "wash_cache" THEN sketch_cache ELSE <<>>
          /\ c_note' = <<"drop", lost>>
    /\ c_drops' = c_drops + 1
    /\ UNCHANGED <<last, c_next, c_pending, c_extra>>
    /\ UNCHANGED NotCache

NextCacheDrop == NextCache \/ DropCache

(***************************************************************************)
(* SESSIONS: the caches live in st.session_state, and every browser        *)
(* session runs the script in a thread of its own.  A cached call is a     *)
(* sequence of steps on the session's OrderedDict (lookup, od[key] =       *)
(* value, move_to_end, one turn of the eviction loop); the steps of        *)
(* different sessions interleave freely.                                   *)
(***************************************************************************)
Sessions == {1, 2}

\* bound: the number of requests of the session that is not sweeping
MaxShort == 2

\* st.session_state as seen by the script run of session s: its own state
StateOf_Shared(s) == 1
StateOf(s) == s

\* _get_lru(name, max_items) in the script run of session s
_get_lru(state, s, name) == state[StateOf(s)][name]

\* the session state after the OrderedDict `name` of session s became od
WithCache(state, s, name, od) == [state EXCEPT ![StateOf(s)][name] = od]

NoSessionCall ==
    [n |-> 0, fn |-> "none", ok |-> FALSE, ret |-> EmptyBytes, ran |-> FALSE,
     up |-> UnreadableUpload, img_bytes |-> EmptyBytes, w |-> 0, h |-> 0,
     start |-> <<>>]

SessionIdle ==
    [at |-> "wash", name |-> "none", cap |-> 0, key |-> <<>>, value |-> EmptyBytes,
     up |-> UnreadableUpload, img_bytes |-> EmptyBytes, w |-> 0, h |-> 0,
     start |-> <<>>]

InitSessionsIdle ==
    /\ ss_state = <<>>
    /\ ss_pc = <<>>
    /\ ss_pos = <<>>
    /\ ss_len = <<>>
    /\ ss_last = <<>>

\* the script start of every session: _get_lru creates both caches empty;
\* one session sweeps, the other sends a few requests for the same pictures
InitSessions ==
    /\ ss_state = [s \in Sessions |-> [wash_cache |-> <<>>, sketch_cache |-> <<>>]]
    /\ ss_pc = [s \in Sessions |-> SessionIdle]
    /\ ss_pos = [s \in Sessions |-> 0]
    /\ ss_len \in {f \in [Sessions -> {MaxShort, MaxSweep}] :
                      Cardinality({s \in Sessions : f[s] = MaxSweep}) = 1}
    /\ ss_last = [s \in Sessions |-> NoSessionCall]

\* the call session s is about to make: its cache, its key and what the
\* transform returns for its input
SessionCall(s) ==
    IF ss_pc[s].at = "wash"
    THEN LET up == Upload(ImageBytes(SweepImg(ss_pos[s] + 1), "jpg"))
             rd == _read_upload_bytes(up)
         IN  [fn |-> "wash", name |-> "wash_cache", cap |-> MAX_WASH_CACHE,
              up |-> up, img_bytes |-> EmptyBytes, w |-> 0, h |-> 0,
              pre |-> rd, key |-> sha256(rd.val),
              res |-> IF rd.ok THEN _wash_bytes(rd.val) ELSE rd]
    ELSE LET b == ss_pc[s].img_bytes
             w == SweepW(ss_pos[s])
             h == SweepH(ss_pos[s])
         IN  [fn |-> "sketch", name |-> "sketch_cache", cap |-> MAX_SKETCH_CACHE,
              up |-> UnreadableUpload, img_bytes |-> b, w |-> w, h |-> h,
              pre |-> Return(b), key |-> SketchKey(b, w, h),
              res |-> _sketch_compute(b, w, h)]

\* what session s does after a call of fn returned or raised: the sketch of
\* the washed bytes, or the wash of the next upload
AfterCall(fn, ok, ret) ==
    IF fn = "wash" /\ ok THEN [SessionIdle EXCEPT !.at = "sketch", !.img_bytes = ret]
    ELSE SessionIdle

SessionRecord(s, c, ok, ret, ran, start) ==
    [n |-> ss_last[s].n + 1, fn |-> c.fn, ok |-> ok, ret |-> ret, ran |-> ran,
     up |-> c.up, img_bytes |-> c.img_bytes, w |-> c.w, h |-> c.h, start |-> start]

\* first step of a cached call: `if key in cache: cache.move_to_end(key);
\* return cache[key]`, otherwise the transform runs
SessLookup(s) ==
    /\ ss_pc[s].at \in {"wash", "sketch"}
    /\ ss_pc[s].at = "wash" => ss_pos[s] < ss_len[s]
    /\ \E c \in {SessionCall(s)} : \E od \in {_get_lru(ss_state, s, c.name)} :
          IF ~c.pre.ok
          THEN /\ ss_last' = [ss_last EXCEPT ![s] =
                                 SessionRecord(s, c, FALSE, EmptyBytes, FALSE, od)]
               /\ ss_pc' = [ss_pc EXCEPT ![s] = SessionIdle]
               /\ UNCHANGED ss_state
          ELSE IF Contains(od, c.key)
          THEN /\ ss_state' = WithCache(ss_state, s, c.name, LruHit(od, c.key))
               /\ ss_last' = [ss_last EXCEPT ![s] =
                                 SessionRecord(s, c, TRUE, Lookup(od, c.key), FALSE, od)]
               /\ ss_pc' = [ss_pc EXCEPT ![s] = AfterCall(c.fn, TRUE, Lookup(od, c.key))]
          ELSE IF ~c.res.ok
          THEN /\ ss_last' = [ss_last EXCEPT ![s] =
                                 SessionRecord(s, c, FALSE, EmptyBytes, TRUE, od)]
               /\ ss_pc' = [ss_pc EXCEPT ![s] = SessionIdle]
               /\ UNCHANGED ss_state
          ELSE /\ ss_pc' = [ss_pc EXCEPT ![s] =
                               [at |-> "setitem", name |-> c.name, cap |-> c.cap,
                                key |-> c.key, value |-> c.res.val,
                                up |-> c.up, img_bytes |-> c.img_bytes,
                                w |-> c.w, h |-> c.h, start |-> od]]
               /\ UNCHANGED <<ss_state, ss_last>>
    /\ ss_pos' = IF ss_pc[s].at = "wash" THEN [ss_pos EXCEPT ![s] = @ + 1] ELSE ss_pos
    /\ UNCHANGED ss_len
    /\ UNCHANGED NotSessions

\* _lru_put, first statement: `od[key] = value`
SessSetItem(s) ==
    /\ ss_pc[s].at = "setitem"
    /\ ss_state' = WithCache(ss_state, s, ss_pc[s].name,
                      SetItem(_get_lru(ss_state, s, ss_pc[s].name),
                              ss_pc[s].key, ss_pc[s].value))
    /\ ss_pc' = [ss_pc EXCEPT ![s].at = "move"]
    /\ UNCHANGED <<ss_pos, ss_len, ss_last>>
    /\ UNCHANGED NotSessions

\* _lru_put, second statement: `od.move_to_end(key)`
SessMoveToEnd(s) ==
    /\ ss_pc[s].at = "move"
    /\ ss_state' = WithCache(ss_state, s, ss_pc[s].name,
                      move_to_end(_get_lru(ss_state, s, ss_pc[s].name), ss_pc[s].key))
    /\ ss_pc' = [ss_pc EXCEPT ![s].at = "evict"]
    /\ UNCHANGED <<ss_pos, ss_len, ss_last>>
    /\ UNCHANGED NotSessions

\* _lru_put, one test of `while len(od) > max_items: od.popitem(last=False)`;
\* when the loop ends the call returns the value it computed
SessEvict(s) ==
    /\ ss_pc[s].at = "evict"
    /\ \E od \in {_get_lru(ss_state, s, ss_pc[s].name)} :
          IF Len(od) > ss_pc[s].cap
          THEN /\ ss_state' = WithCache(ss_state, s, ss_pc[s].name, popitem(od))
               /\ UNCHANGED <<ss_pc, ss_last>>
          ELSE /\ ss_last' = [ss_last EXCEPT ![s] =
                                 [n |-> ss_last[s].n + 1,
                                  fn |-> IF ss_pc[s].name = "wash_cache"
                                         THEN "wash" ELSE "sketch",
                                  ok |-> TRUE, ret |-> ss_pc[s].value, ran |-> TRUE,
                                  up |-> ss_pc[s].up, img_bytes |-> ss_pc[s].img_bytes,
                                  w |-> ss_pc[s].w, h |-> ss_pc[s].h,
                                  start |-> ss_pc[s].start]]
               /\ ss_pc' = [ss_pc EXCEPT ![s] =
                               AfterCall(IF ss_pc[s].name = "wash_cache"
                                         THEN "wash" ELSE "sketch",
                                         TRUE, ss_pc[s].value)]
               /\ UNCHANGED ss_state
    /\ UNCHANGED <<ss_pos, ss_len>>
    /\ UNCHANGED NotSessions

NextSessions ==
    \E s \in Sessions :
        SessLookup(s) \/ SessSetItem(s) \/ SessMoveToEnd(s) \/ SessEvict(s)

(***************************************************************************)
(* COVER COLLAGE: cover_collage.py, _pick_indices, the choice of the       *)
(* uploads that fill the tiles of a template, one loop iteration per step. *)
(***************************************************************************)
\* the stride of the index sequence
PICK_STRIDE == 9973

\* bounds of the arguments
MaxTotal == 5
MaxNeed == 6
MaxPickSeed == 2

\* out[:need]
Prefix(s, n) == SubSeq(s, 1, IF n < Len(s) THEN n ELSE Len(s))

InitPickIdle ==
    /\ pk_args = <<>>
    /\ pk_out = <<>>
    /\ pk_i = 0
    /\ pk_pc = "idle"
    /\ pk_result = <<>>

\* _pick_indices(n_total, need, seed, hero_first) is called
InitPick ==
    /\ pk_args \in [n_total : 0..MaxTotal, need : 0..MaxNeed,
                    seed : 0..MaxPickSeed, hero_first : BOOLEAN]
    /\ pk_out = <<>>
    /\ pk_i = 0
    /\ pk_pc = "start"
    /\ pk_result = <<>>

\* `if n_total <= 0: return []`, else `out = []`, the hero, `i = 0`
PickStart ==
    /\ pk_pc = "start"
    /\ IF pk_args.n_total <= 0
       THEN /\ pk_pc' = "done"
            /\ UNCHANGED pk_out
       ELSE /\ pk_pc' = "loop"
            /\ pk_out' = IF pk_args.hero_first THEN <<0>> ELSE <<>>
    /\ UNCHANGED <<pk_args, pk_i, pk_result>>
    /\ UNCHANGED NotPick

\* one iteration of `while len(out) < need`; idx depends on i through
\* i * 9973 % n_total only, so i is kept modulo 2 * n_total: every
\* iteration changes i, as `i += 1` does
PickStep ==
    /\ pk_pc = "loop"
    /\ Len(pk_out) < pk_args.need
    /\ LET idx == (pk_args.seed + pk_i * PICK_STRIDE) % pk_args.n_total
       IN  pk_out' = IF idx \notin Range(pk_out) THEN Append(pk_out, idx) ELSE pk_out
    /\ pk_i' = (pk_i + 1) % (2 * pk_args.n_total)
    /\ UNCHANGED <<pk_args, pk_pc, pk_result>>
    /\ UNCHANGED NotPick

\* the loop condition is false: `return out[:need]`
PickReturn ==
    /\ pk_pc = "loop"
    /\ ~(Len(pk_out) < pk_args.need)
    /\ pk_result' = Prefix(pk_out, pk_args.need)
    /\ pk_pc' = "done"
    /\ UNCHANGED <<pk_args, pk_out, pk_i>>
    /\ UNCHANGED NotPick

NextPick == PickStart \/ PickStep \/ PickReturn

(***************************************************************************)
(* QUEST SCHEDULE: app.py, _build_full_quest_bank and build_book_schedule. *)
(***************************************************************************)
\* range(24): the hours of the bank; range(10): the quests of an hour;
\* range(24): the quests of the reserve
HOURS == 24
QUESTS_PER_HOUR == 10
RESERVE_SIZE == 24

\* q_id = f"{hour_str}_{i:02d}": one number per (hour, i), 0..239
BankId(h, i) == h * QUESTS_PER_HOUR + i

\* "id": f"res_{i:02d}": the numbers after those of the bank, 240..263
ReserveId(i) == HOURS * QUESTS_PER_HOUR + i

\* QUEST_BANK[hour_str]: the ids of the hour's quests in list order
QUEST_BANK(h) == [n \in 1..QUESTS_PER_HOUR |-> BankId(h, n - 1)]

\* QUEST_RESERVE: the ids of the reserve quests in list order
QUEST_RESERVE == [n \in 1..RESERVE_SIZE |-> ReserveId(n - 1)]

\* np.random.default_rng(seed) and rng.integers(0, n) are library code. The
\* model keeps what the schedule relies on: the generator is seeded once,
\* every draw advances its one state, and a draw is a function of that
\* state. It is a 16-bit linear congruential generator whose draw reduces
\* the state to 0..n-1 by multiply and shift.
RNG_MOD == 65536
RNG_MUL == 25173
RNG_INC == 13849

default_rng(seed) == ((seed % RNG_MOD) * 251 + 12345) % RNG_MOD

RngAdvance(state) == (state * RNG_MUL + RNG_INC) % RNG_MOD

\* rng.integers(0, high): ValueError when high <= 0
RngIntegers(state, high) ==
    IF high <= 0 THEN [ok |-> FALSE, state |-> state, value |-> 0]
    ELSE [ok |-> TRUE, state |-> RngAdvance(state),
          value |-> (RngAdvance(state) * high) \div RNG_MOD]

\* [q for q in pool if q["id"] not in used_ids]
Unused(pool, used_ids) == SelectSeq(pool, LAMBDA id : id \notin used_ids)

\* the candidates of a slot: the unused quests of its hour, else the unused
\* quests of the reserve, else the whole reserve
Candidates_NoFallback(hour, used_ids) ==
    IF Unused(QUEST_BANK(hour), used_ids) # <<>>
    THEN Unused(QUEST_BANK(hour), used_ids)
    ELSE Unused(QUEST_RESERVE, used_ids)
Candidates_NoFilter(hour, used_ids) == QUEST_BANK(hour)
Candidates(hour, used_ids) ==
    IF Unused(QUEST_BANK(hour), used_ids) # <<>>
    THEN Unused(QUEST_BANK(hour), used_ids)
    ELSE IF Unused(QUEST_RESERVE, used_ids) # <<>>
    THEN Unused(QUEST_RESERVE, used_ids)
    ELSE QUEST_RESERVE

\* the state of build_book_schedule before its loop
ScheduleStart_SeedByCount(seed, start_hour, count) ==
    [rng |-> default_rng(seed + count), used_ids |-> {}, schedule |-> <<>>,
     picks |-> <<>>, i |-> 0, ok |-> TRUE]
ScheduleStart(seed, start_hour, count) ==
    [rng |-> default_rng(seed), used_ids |-> {}, schedule |-> <<>>,
     picks |-> <<>>, i |-> 0, ok |-> TRUE]

\* one iteration of `for i in range(count)`
ScheduleStep(st, start_hour) ==
    LET hour == (start_hour + st.i) % HOURS
        candidates == Candidates(hour, st.used_ids)
        d == RngIntegers(st.rng, Len(candidates))
    IN  IF ~d.ok THEN [st EXCEPT !.ok = FALSE]
        ELSE LET picked == candidates[d.value + 1]
             IN  [rng |-> d.state,
                  used_ids |-> st.used_ids \cup {picked},
                  schedule |-> (hour :> picked) @@ st.schedule,
                  picks |-> Append(st.picks, picked),
                  i |-> st.i + 1,
                  ok |-> TRUE]

RECURSIVE ScheduleLoop(_, _, _)
ScheduleLoop(st, start_hour, count) ==
    IF ~st.ok \/ st.i >= count THEN st
    ELSE ScheduleLoop(ScheduleStep(st, start_hour), start_hour, count)

\* build_book_schedule(seed, start_hour, count), run to its end
build_book_schedule(seed, start_hour, count) ==
    ScheduleLoop(ScheduleStart(seed, start_hour, count), start_hour, count)

\* bounds of the schedule inputs
MaxSeed == 2
MaxCount == 266
SmallCount == 2

\* MISSION_PAGES = 24 slots, as build_interior asks for
MISSION_PAGES == 24

SchedSeeds == 0..MaxSeed
StartHours == (0 - 1)..HOURS
Counts == (0..SmallCount) \cup {MISSION_PAGES, HOURS * QUESTS_PER_HOUR,
                                HOURS * QUESTS_PER_HOUR + RESERVE_SIZE, MaxCount}

NoRerun == [kind |-> "none", start_hour |-> 0, count |-> 0, ok |-> FALSE,
            schedule |-> <<>>, picks |-> <<>>]

InitSchedIdle ==
    /\ s_seed = 0
    /\ s_start = 0
    /\ s_count = 0
    /\ s_i = 0
    /\ s_rng = 0
    /\ s_used = {}
    /\ s_sched = <<>>
    /\ s_picks = <<>>
    /\ s_pc = "idle"
    /\ s_rerun = NoRerun

\* build_book_schedule is entered: rng, used_ids and schedule are set up
InitSched ==
    /\ s_seed \in SchedSeeds
    /\ s_start \in StartHours
    /\ s_count \in Counts
    /\ LET st == ScheduleStart(s_seed, s_start, s_count)
       IN  /\ s_i = st.i
           /\ s_rng = st.rng
           /\ s_used = st.used_ids
           /\ s_sched = st.schedule
           /\ s_picks = st.picks
    /\ s_pc = "loop"
    /\ s_rerun = NoRerun

SchedState ==
    [rng |-> s_rng, used_ids |-> s_used, schedule |-> s_sched,
     picks |-> s_picks, i |-> s_i, ok |-> TRUE]

\* one slot is filled, or rng.integers raises on an empty candidate list
ScheduleSlot ==
    /\ s_pc = "loop"
    /\ s_i < s_count
    /\ LET st == ScheduleStep(SchedState, s_start)
       IN  /\ s_i' = st.i
           /\ s_rng' = st.rng
           /\ s_used' = st.used_ids
           /\ s_sched' = st.schedule
           /\ s_picks' = st.picks
           /\ s_pc' = IF st.ok THEN "loop" ELSE "error"
    /\ UNCHANGED <<s_seed, s_start, s_count, s_rerun>>
    /\ UNCHANGED NotSched

\* the loop is over: `return schedule`
ScheduleReturn ==
    /\ s_pc = "loop"
    /\ s_i >= s_count
    /\ s_pc' = "done"
    /\ UNCHANGED <<s_seed, s_start, s_count, s_i, s_rng, s_used, s_sched, s_picks, s_rerun>>
    /\ UNCHANGED NotSched

\* A partial re-run with the same seed, after a schedule of at most a day:
\* the schedule of one of its hours alone ("single"), or the schedule from
\* the same start_hour with fewer slots ("prefix").
Reruns ==
    {[kind |-> "single", start_hour |-> (s_start + k) % HOURS, count |-> 1] :
        k \in 0..(s_count - 1)}
    \cup {[kind |-> "prefix", start_hour |-> s_start, count |-> c] :
        c \in 1..s_count}

ScheduleRerun ==
    /\ s_pc = "done"
    /\ s_count <= MISSION_PAGES
    /\ \E r \in Reruns :
          LET st == build_book_schedule(s_seed, r.start_hour, r.count)
          IN  s_rerun' = [kind |-> r.kind, start_hour |-> r.start_hour,
                          count |-> r.count, ok |-> st.ok,
                          schedule |-> st.schedule, picks |-> st.picks]
    /\ s_pc' = "rerun"
    /\ UNCHANGED <<s_seed, s_start, s_count, s_i, s_rng, s_used, s_sched, s_picks>>
    /\ UNCHANGED NotSched

NextSched == ScheduleSlot \/ ScheduleReturn \/ ScheduleRerun

(***************************************************************************)
(* COVER AND PAGE GEOMETRY: build_cover (app.py), build_cover_collage      *)
(* (cover_collage.py) and get_page_spec (kern/pdf_engine.py).              *)
(* A length is kept in millionths of an inch: 8.5 inch is 8500000.         *)
(***************************************************************************)
\* TRIM_IN = 8.5, BLEED = 0.125 inch
TRIM == 8500000
BLEED == 125000

\* the smallest spine, 0.001 inch, also the grid build_cover_collage rounds to
MIN_SPINE == 1000

\* paper_factors.get(paper, 0.002252): inch of spine per page
DEFAULT_PAPER_FACTOR == 2252

KDP_PAGES_FIXED == 26
SPINE_TEXT_MIN_PAGES == 79

PaperNames == {"Schwarzweiss - Weiss", "Schwarzweiss - Creme", "Farbe - Weiss (Standard)"}

PAPER_FACTORS ==
    [p \in PaperNames |-> IF p = "Schwarzweiss - Creme" THEN 2500 ELSE 2252]

PaperFactor(paper) ==
    IF paper \in DOMAIN PAPER_FACTORS THEN PAPER_FACTORS[paper] ELSE DEFAULT_PAPER_FACTOR

\* max(a, b)
PyMax(a, b) == IF a >= b THEN a ELSE b

\* round(x) of the float x = n / d, d > 0: to the nearest integer. The code
\* computes x in binary floating point from 0.0025 and 0.001, which have no
\* exact binary form: a quotient that is an exact tie in decimal (2.5 per
\* page, an odd page count) lands just below or just above the half, so a
\* tie goes down or up (tie_up) from one page count to the other.
FloatRound(n, d, tie_up) ==
    LET q == n \div d
        r == n % d
    IN  IF 2 * r < d THEN q
        ELSE IF 2 * r > d THEN q + 1
        ELSE IF tie_up THEN q + 1 ELSE q

\* sw = max(float(pages) * factor * inch, 0.001 * inch)
SpineWidth_Unclamped(page_count, factor) == page_count * factor

SpineWidth(page_count, factor) == PyMax(page_count * factor, MIN_SPINE)

\* build_cover_collage: sw = round(sw / (0.001 * inch)) * (0.001 * inch)
SpineWidthRounded(page_count, factor, tie_up) ==
    FloatRound(SpineWidth(page_count, factor), MIN_SPINE, tie_up) * MIN_SPINE

\* cw, ch = (2 * TRIM) + sw + (2 * BLEED), TRIM + (2 * BLEED)
CoverWidth_OneBleed(sw) == (2 * TRIM) + sw + BLEED

CoverWidth(sw) == (2 * TRIM) + sw + (2 * BLEED)

CoverHeight == TRIM + (2 * BLEED)

\* c.rect(x, y, w, h)
Rect(x, y, w, h) == [x |-> x, y |-> y, w |-> w, h |-> h]

NoRect == Rect(0, 0, 0, 0)

\* what build_cover_collage draws on the spine after the black bar
SpineText_Always(page_count, threshold) == <<"rotated_text">>

SpineText(page_count, threshold) ==
    IF page_count >= threshold THEN <<"rotated_text">> ELSE <<>>

Cover(fn, page_count, paper, sw, back, on_spine) ==
    [fn |-> fn, pages |-> page_count, paper |-> paper,
     sw |-> sw, cw |-> CoverWidth(sw), ch |-> CoverHeight,
     base |-> Rect(0, 0, CoverWidth(sw), CoverHeight),
     spine |-> Rect(BLEED + TRIM, BLEED, sw, TRIM),
     front |-> Rect(BLEED + TRIM + sw, BLEED, TRIM, TRIM),
     back |-> back,
     on_spine |-> <<"bar">> \o on_spine]

\* build_cover always builds for KDP_PAGES_FIXED pages; it fills the base,
\* the spine and the front, and writes nothing on the spine
build_cover(paper) ==
    Cover("build_cover", KDP_PAGES_FIXED, paper,
          SpineWidth(KDP_PAGES_FIXED, PaperFactor(paper)), NoRect, <<>>)

\* build_cover_collage(pages, paper, trim_in, bleed_in, paper_factors,
\* spine_text_min_pages): base, spine, spine text, front collage, back block
build_cover_collage(page_count, paper, spine_text_min_pages, tie_up) ==
    Cover("build_cover_collage", page_count, paper,
          SpineWidthRounded(page_count, PaperFactor(paper), tie_up),
          Rect(BLEED, BLEED, TRIM, TRIM),
          SpineText(page_count, spine_text_min_pages))

\* PageSpec(page_w, page_h, bleed, safe)
PageSpec(page_w, page_h, bleed, safe) ==
    [page_w |-> page_w, page_h |-> page_h, bleed |-> bleed, safe |-> safe]

\* the trim sizes: 8.5 x 8.5 inch (square) or A4, 8.27 x 11.69 inch
SQUARE_TRIM == 8500000
A4_TRIM_W == 8270000
A4_TRIM_H == 11690000

\* the KDP bleed 0.125, the KDP safe margin 0.375 and the preview safe
\* margin 0.5 inch
KDP_BLEED == 125000
KDP_SAFE_MARGIN == 375000
PREVIEW_SAFE == 500000

get_page_spec_SafeWithoutBleed(kdp_mode, square) ==
    LET bleed == IF kdp_mode THEN KDP_BLEED ELSE 0
    IN  PageSpec((IF square THEN SQUARE_TRIM ELSE A4_TRIM_W) + 2 * bleed,
                 (IF square THEN SQUARE_TRIM ELSE A4_TRIM_H) + 2 * bleed,
                 bleed,
                 IF kdp_mode THEN KDP_SAFE_MARGIN ELSE PREVIEW_SAFE)

get_page_spec(kdp_mode, square) ==
    IF kdp_mode
    THEN LET bleed == KDP_BLEED
         IN  PageSpec((IF square THEN SQUARE_TRIM ELSE A4_TRIM_W) + 2 * bleed,
                      (IF square THEN SQUARE_TRIM ELSE A4_TRIM_H) + 2 * bleed,
                      bleed,
                      bleed + KDP_SAFE_MARGIN)
    ELSE PageSpec(IF square THEN SQUARE_TRIM ELSE A4_TRIM_W,
                  IF square THEN SQUARE_TRIM ELSE A4_TRIM_H,
                  0,
                  PREVIEW_SAFE)

\* ---- the callers of the cover builders and of get_page_spec ----
\* The builders and the lookup are functions of their arguments: a behaviour
\* is one lookup of the page spec, or up to two cover builds on one paper.
\* bound of the page counts
MaxCoverPages == 130

CoverPages == (0 - 1)..MaxCoverPages
Papers == PaperNames \cup {"Recycling"}

CoverBuilds == {1, 2}

NoPageSpec == [kdp_mode |-> FALSE, square |-> FALSE, called |-> FALSE,
               spec |-> PageSpec(0, 0, 0, 0)]

SamePaper(paper) == IF cv_calls = <<>> THEN TRUE ELSE cv_calls[1].paper = paper

InitCoverIdle ==
    /\ cv_calls = <<>>
    /\ ps_call = NoPageSpec

InitCover ==
    /\ cv_calls = <<>>
    /\ ps_call = NoPageSpec

BuildCover ==
    /\ ~ps_call.called
    /\ Len(cv_calls) < Cardinality(CoverBuilds)
    /\ \E paper \in Papers :
          /\ SamePaper(paper)
          /\ cv_calls' = Append(cv_calls, build_cover(paper))
    /\ UNCHANGED ps_call
    /\ UNCHANGED NotCover

BuildCoverCollage ==
    /\ ~ps_call.called
    /\ Len(cv_calls) < Cardinality(CoverBuilds)
    /\ \E page_count \in CoverPages, paper \in Papers, tie_up \in BOOLEAN :
          /\ SamePaper(paper)
          /\ cv_calls' = Append(cv_calls,
                                build_cover_collage(page_count, paper,
                                                    SPINE_TEXT_MIN_PAGES, tie_up))
    /\ UNCHANGED ps_call
    /\ UNCHANGED NotCover

GetPageSpec ==
    /\ ~ps_call.called
    /\ cv_calls = <<>>
    /\ \E kdp_mode \in BOOLEAN, square \in BOOLEAN :
          ps_call' = [kdp_mode |-> kdp_mode, square |-> square, called |-> TRUE,
                      spec |-> get_page_spec(kdp_mode, square)]
    /\ UNCHANGED cv_calls
    /\ UNCHANGED NotCover

NextCover == BuildCover \/ BuildCoverCollage \/ GetPageSpec

(***************************************************************************)
(* BUILD: app.py, _new_build_nonce, _stable_seed, build_interior and the   *)
(* button handler.  Text is a tuple: a name is the tuple of its letters,   *)
(* f"{build_nonce}|{i}|{hour}" is <<build_nonce, i, hour>>.                *)
(***************************************************************************)
\* sha256 truncated to its first 8 bytes is library code; the model hashes
\* the items of a text into 16 bits (for the 64 of the code)
HASH_MOD == 65536

RECURSIVE HashFold(_, _)
HashFold(h, text) ==
    IF text = <<>> THEN h
    ELSE HashFold((h * 33 + Head(text)) % HASH_MOD, Tail(text))

\* _stable_seed(s)
_stable_seed(text) == HashFold(5381, text)

\* `& 0xFFFFFFFF` keeps the low half of the seed: 8 bits of the model's 16
SEED_MASK_MOD == 256

\* seed = int(_stable_seed(f"{build_nonce}|{i}|{hour}")) & 0xFFFFFFFF
ShapeSeed(build_nonce, i, hour) == _stable_seed(<<build_nonce, i, hour>>) % SEED_MASK_MOD

\* the seed build_interior hands to build_book_schedule
BuildSeed_FromInputs(name, uploads, build_nonce) ==
    _stable_seed(<<build_nonce, Len(name), Len(uploads)>>)
BuildSeed(name, uploads, build_nonce) == _stable_seed(<<build_nonce>>)

\* _generate_shapes(pb_w, pb_h, seed): int(rng.integers(3, 8)) shapes
ShapeCount(seed) == 3 + RngIntegers(default_rng(seed), 5).value

\* _name_genitive(name)
_name_genitive(name) ==
    IF name = <<>> THEN <<"D", "e", "i", "n", "s">>
    ELSE IF name[Len(name)] \in {"s", "S", "x", "X", "z", "Z"}
    THEN Append(name, "'")
    ELSE Append(name, "s")

MAX_UPLOADS == 48
MAX_TOTAL_UPLOAD_BYTES == 160 * 1024 * 1024

\* start_hour=6 of the schedule and of the page hours
FIRST_HOUR == 6

\* int(pb_w * DPI / 72) for the 8.75 inch page
TargetSide == Sides[1]

\* len(up.getbuffer()), or len(_read_upload_bytes(up)) when that fails
BufferLen(up) == IF up.readable THEN up.data.len ELSE _read_upload_bytes(up).val.len

\* the loop `for up in uploads: total_bytes += ...`
RECURSIVE TotalBytes(_)
TotalBytes(uploads) ==
    IF uploads = <<>> THEN 0 ELSE BufferLen(Head(uploads)) + TotalBytes(Tail(uploads))

\* final = (list(uploads) * (MISSION_PAGES // len(uploads) + 1))[:MISSION_PAGES]
FinalUploads_NoWrap(uploads) ==
    [n \in 1..MISSION_PAGES |-> uploads[IF n <= Len(uploads) THEN n ELSE Len(uploads)]]

FinalUploads(uploads) ==
    [n \in 1..MISSION_PAGES |-> uploads[((n - 1) % Len(uploads)) + 1]]

IntroPage(name) == [kind |-> "intro", text |-> _name_genitive(name), i |-> 0,
                    img |-> EmptyBytes, hour |-> 0, quest |-> 0, seed |-> 0, shapes |-> 0]
OutroPage == [kind |-> "outro", text |-> <<>>, i |-> 0,
              img |-> EmptyBytes, hour |-> 0, quest |-> 0, seed |-> 0, shapes |-> 0]

\* the transforms a build has invoked so far, one more if call r of fn
\* invoked its transform (_wash_bytes, _sketch_compute)
WithRun(runs, fn, r) ==
    IF r.ran THEN Append(runs, [fn |-> fn, key |-> r.key, inserted |-> r.inserted])
    ELSE runs

\* the CONTENT loop of build_interior from page i on: wash, sketch, shapes,
\* quest overlay, showPage; a raise of the wash or the sketch ends the build
RECURSIVE ContentLoop(_, _, _, _, _, _, _, _)
ContentLoop(i, final, schedule, build_nonce, wc, sc, done, runs) ==
    IF i >= Len(final)
    THEN [ok |-> TRUE, err |-> "", wc |-> wc, sc |-> sc, pages |-> done, runs |-> runs]
    ELSE LET w == _wash_upload_to_bytes(wc, final[i + 1])
         IN  IF ~w.ok
             THEN [ok |-> FALSE, err |-> w.err, wc |-> w.cache, sc |-> sc, pages |-> done,
                   runs |-> WithRun(runs, "wash", w)]
             ELSE LET k == _get_sketch_cached(sc, w.ret, TargetSide, TargetSide)
                      hour == (FIRST_HOUR + i) % HOURS
                      seed == ShapeSeed(build_nonce, i, hour)
                  IN  IF ~k.ok
                      THEN [ok |-> FALSE, err |-> k.err, wc |-> w.cache, sc |-> k.cache,
                            pages |-> done,
                            runs |-> WithRun(WithRun(runs, "wash", w), "sketch", k)]
                      ELSE ContentLoop(i + 1, final, schedule, build_nonce, w.cache, k.cache,
                               Append(done, [kind |-> "mission", text |-> <<>>, i |-> i,
                                             img |-> k.ret, hour |-> hour,
                                             quest |-> schedule[hour], seed |-> seed,
                                             shapes |-> ShapeCount(seed)]),
                               WithRun(WithRun(runs, "wash", w), "sketch", k))

BuildFailed(msg, wc, sc) ==
    [ran |-> TRUE, ok |-> FALSE, err |-> msg, seed |-> 0, schedule |-> <<>>,
     shape_seeds |-> <<>>, pages |-> <<>>, wc |-> wc, sc |-> sc, runs |-> <<>>]

\* build_interior(name, uploads, paper, build_nonce) in a session whose
\* caches are wc and sc
build_interior(name, uploads, build_nonce, wc, sc) ==
    IF uploads = <<>> THEN BuildFailed("Keine Uploads vorhanden", wc, sc)
    ELSE IF Len(uploads) > MAX_UPLOADS THEN BuildFailed("Zu viele Uploads", wc, sc)
    ELSE IF \E n \in 1..Len(uploads) :
                ~uploads[n].readable /\ ~_read_upload_bytes(uploads[n]).ok
    THEN BuildFailed("Upload zu gross", wc, sc)
    ELSE IF TotalBytes(uploads) > MAX_TOTAL_UPLOAD_BYTES
    THEN BuildFailed("Uploads insgesamt zu gross", wc, sc)
    ELSE LET seed == BuildSeed(name, uploads, build_nonce)
             sch == build_book_schedule(seed, FIRST_HOUR, MISSION_PAGES)
             body == ContentLoop(0, FinalUploads(uploads), sch.schedule, build_nonce,
                                 wc, sc, <<IntroPage(name)>>, <<>>)
         IN  IF ~sch.ok THEN BuildFailed("schedule", wc, sc)
             ELSE IF ~body.ok
             THEN [BuildFailed(body.err, body.wc, body.sc) EXCEPT !.runs = body.runs]
             ELSE [ran |-> TRUE, ok |-> TRUE, err |-> "", seed |-> seed,
                   schedule |-> sch.schedule,
                   shape_seeds |-> [n \in 1..MISSION_PAGES |->
                                      ShapeSeed(build_nonce, n - 1,
                                                (FIRST_HOUR + n - 1) % HOURS)],
                   pages |-> Append(body.pages, OutroPage),
                   wc |-> body.wc, sc |-> body.sc, runs |-> body.runs]

\* bound of the builds: the number of values a nonce can take
MaxNonce == 2

\* the two builds of the session that the claims compare
Builds == {1, 2}

\* _new_build_nonce(): time and random bits, a value the caller cannot choose
Nonces == 1..MaxNonce

Names == {<<"E", "d", "d", "i", "e">>, <<"M", "a", "x">>}

Photo(n) == Upload(ImageBytes(n, "jpg"))

UploadLists ==
    {<<>>,
     <<Photo(1)>>,
     <<Photo(1), Photo(2)>>,
     <<Photo(2), Photo(1)>>,
     <<Photo(1), Upload(CorruptBytes)>>,
     [n \in 1..(MAX_UPLOADS + 1) |-> Photo(1)]}

NoBuild ==
    [ran |-> FALSE, ok |-> FALSE, err |-> "", seed |-> 0, schedule |-> <<>>,
     shape_seeds |-> <<>>, pages |-> <<>>, wc |-> <<>>, sc |-> <<>>, runs |-> <<>>]

\* st.session_state.setdefault("assets", None)
NoAssets ==
    [stored |-> FALSE, int |-> <<>>, name |-> <<>>, nonce |-> 0,
     cov |-> Cover("none", 0, "", 0, NoRect, <<>>)]

\* paper = c2.selectbox("Papier", list(PAPER_FACTORS.keys()), 0)
DefaultPaper == "Schwarzweiss - Weiss"

\* the quota of a free client: builds_left = max(0, user_limit - builds_used),
\* can_build_limit = builds_left > 0
FREE_LIMIT == 3

builds_left(builds_used) == PyMax(0, FREE_LIMIT - builds_used)

can_build_limit(builds_used) == builds_left(builds_used) > 0

\* _log_build(ip): one more row of the builds table
_log_build(log) == log + 1

\* the body of the button, with the session's assets and the client's log:
\* try: build_interior, build_cover, store the assets, _log_build;
\* except Exception: st.error, nothing stored and nothing logged
GenerateHandler_LogFirst(inp, nonce, assets, log, wc, sc) ==
    LET r == build_interior(inp.name, inp.uploads, nonce, wc, sc)
    IN  [res |-> r, log |-> _log_build(log),
         assets |-> IF r.ok
                    THEN [stored |-> TRUE, int |-> r.pages, name |-> inp.name,
                          nonce |-> nonce, cov |-> build_cover(inp.paper)]
                    ELSE assets]

GenerateHandler(inp, nonce, assets, log, wc, sc) ==
    LET r == build_interior(inp.name, inp.uploads, nonce, wc, sc)
    IN  IF r.ok
        THEN [res |-> r, log |-> _log_build(log),
              assets |-> [stored |-> TRUE, int |-> r.pages, name |-> inp.name,
                          nonce |-> nonce, cov |-> build_cover(inp.paper)]]
        ELSE [res |-> r, log |-> log, assets |-> assets]

InitBuildIdle ==
    /\ b_in = <<>>
    /\ b_nonce = <<>>
    /\ b_res = <<>>
    /\ b_done = 0
    /\ b_assets = NoAssets
    /\ b_log = 0

\* the session starts: the user's entries of each build, nothing built yet
InitBuild ==
    /\ b_in \in [Builds -> [name : Names, paper : {DefaultPaper}, uploads : UploadLists]]
    /\ b_nonce = [b \in Builds |-> 0]
    /\ b_res = [b \in Builds |-> NoBuild]
    /\ b_done = 0
    /\ b_assets = NoAssets
    /\ b_log = 0

\* ---- a session whose second build takes upload lists of every size ----
\* a file of exactly 12 MB
FullSizeBytes(img, enc) == [ImageBytes(img, enc) EXCEPT !.len = MAX_UPLOAD_BYTES]

\* n different photos
PhotoList(n) == [k \in 1..n |-> Photo(k)]

\* the sizes of the good upload lists
InteriorSizes == {1, 2, 5, MISSION_PAGES - 1, MISSION_PAGES, MISSION_PAGES + 1, MAX_UPLOADS}

\* lists that build_interior or one of its steps refuses: too many files,
\* more than 160 MB in total, a file over 12 MB, an empty file, an image
\* over 25 megapixels, bytes that are no image, a file that cannot be read
BadUploadLists ==
    {PhotoList(MAX_UPLOADS + 1),
     [k \in 1..14 |-> Upload(FullSizeBytes(k, "jpg"))],
     <<Photo(1), Upload(HugeBytes(2, "jpg"))>>,
     <<Photo(1), Upload(EmptyBytes)>>,
     <<Photo(1), Upload(OverPixelBytes(2, "jpg"))>>,
     <<Photo(1), Upload(CorruptBytes)>>,
     <<Photo(1), UnreadableUpload>>}

InteriorUploads == {PhotoList(n) : n \in InteriorSizes} \cup BadUploadLists

FirstUploads == {PhotoList(2), <<Upload(CorruptBytes), Photo(1)>>}

InitInterior ==
    /\ \E name \in Names, paper \in PaperNames,
          first \in FirstUploads, second \in InteriorUploads :
          b_in = [b \in Builds |->
                    [name |-> name, paper |-> paper,
                     uploads |-> IF b = 1 THEN first ELSE second]]
    /\ b_nonce = [b \in Builds |-> 0]
    /\ b_res = [b \in Builds |-> NoBuild]
    /\ b_done = 0
    /\ b_assets = NoAssets
    /\ b_log = 0

\* the button, shown while the quota lasts and enabled when there are
\* uploads and a name: nonce = _new_build_nonce(), then the handler; an
\* exception is reported and the session goes on
PressBuild ==
    /\ b_done < Cardinality(Builds)
    /\ can_build_limit(b_log)
    /\ b_in[b_done + 1].uploads # <<>>
    /\ b_in[b_done + 1].name # <<>>
    /\ \E nonce \in Nonces, b \in {b_done + 1} :
          \E h \in {GenerateHandler(b_in[b], nonce, b_assets, b_log,
                                    wash_cache, sketch_cache)} :
              /\ b_nonce' = [b_nonce EXCEPT ![b] = nonce]
              /\ b_res' = [b_res EXCEPT ![b] = h.res]
              /\ wash_cache' = h.res.wc
              /\ sketch_cache' = h.res.sc
              /\ b_assets' = h.assets
              /\ b_log' = h.log
    /\ b_done' = b_done + 1
    /\ UNCHANGED b_in
    /\ UNCHANGED NotBuild

NextBuild == PressBuild

\* ---- a session whose caches hold the work of earlier builds ----
\* the entries earlier builds left for picture n, as _lru_put stores them
WashEntry(raw) == [k |-> sha256(raw), v |-> _wash_bytes(raw).val]

SketchEntry(washed) ==
    [k |-> SketchKey(washed, TargetSide, TargetSide),
     v |-> _sketch_compute(washed, TargetSide, TargetSide).val]

\* pictures of earlier builds that the builds at hand do not use
OtherPicture(j) == 100 + j

\* a cache of earlier builds: empty, full of other pictures, or full with
\* the entry of picture 1 as its oldest
Fills == {"empty", "full", "full, picture 1 oldest"}

PriorWash(fill) ==
    IF fill = "empty" THEN <<>>
    ELSE [j \in 1..MAX_WASH_CACHE |->
            IF j = 1 /\ fill # "full" THEN WashEntry(ImageBytes(1, "jpg"))
            ELSE WashEntry(ImageBytes(OtherPicture(j), "jpg"))]

PriorSketch(fill) ==
    IF fill = "empty" THEN <<>>
    ELSE [j \in 1..MAX_SKETCH_CACHE |->
            IF j = 1 /\ fill # "full"
            THEN SketchEntry(_wash_bytes(ImageBytes(1, "jpg")).val)
            ELSE SketchEntry(_wash_bytes(ImageBytes(OtherPicture(j), "jpg")).val)]

\* upload lists with repeated pictures, the same picture in two encodings,
\* and files the wash or the sketch rejects
RepeatUploads ==
    {PhotoList(1), PhotoList(2), PhotoList(MISSION_PAGES), PhotoList(MAX_UPLOADS),
     <<Photo(1), Upload(ImageBytes(1, "png")), Photo(1), Photo(2)>>,
     <<Photo(1), Photo(1), Upload(CorruptBytes)>>,
     <<Photo(2), Upload(OverPixelBytes(3, "jpg")), Photo(2)>>}

InitRepeat ==
    /\ \E fill \in Fills :
          /\ wash_cache = PriorWash(fill)
          /\ sketch_cache = PriorSketch(fill)
    /\ last = [wash |-> NoWashCall, sketch |-> NoSketchCall]
    /\ c_next = 0
    /\ c_pending = NoPending
    /\ c_extra = 0
    /\ c_note = <<"none", "start">>
    /\ c_drops = 0
    /\ b_in \in [Builds -> [name : {<<"M", "a", "x">>}, paper : {DefaultPaper},
                             uploads : RepeatUploads]]
    /\ b_nonce = [b \in Builds |-> 0]
    /\ b_res = [b \in Builds |-> NoBuild]
    /\ b_done = 0
    /\ b_assets = NoAssets
    /\ b_log = 0

(***************************************************************************)
(* FAIR USE: app.py, _get_build_count, _log_build and the limit logic of   *)
(* the script.  Sessions of one client (one address) run the script each   *)
(* in a thread of its own; they share the builds table.  Time is counted   *)
(* in hours.                                                               *)
(***************************************************************************)
WINDOW_HOURS == 24

COMMUNITY_TOKENS ==
    [token \in {"KITA-2026", "SCHULE-X", "THERAPIE-EDDIE"} |->
        IF token = "THERAPIE-EDDIE" THEN 100 ELSE 50]

\* bounds: the clock, the hours that pass in one step, the rows of the table
MaxClock == 30
ClockStep == 6
MaxLogged == 5

QuotaSessions == {1, 2}

\* SELECT COUNT(*) FROM builds WHERE ip=? AND timestamp>?, the cutoff being
\* now - hours * 3600
_get_build_count(log, now) ==
    Cardinality({n \in 1..Len(log) : log[n] > now - WINDOW_HOURS})

\* user_limit of a client with a Stripe key configured who is no supporter
user_limit(community_pass) ==
    IF community_pass \in DOMAIN COMMUNITY_TOKENS THEN COMMUNITY_TOKENS[community_pass]
    ELSE FREE_LIMIT

\* builds_left = max(0, user_limit - builds_used);
\* can_build_limit = builds_left > 0 or is_supporter
CanBuild(community_pass, builds_used, is_supporter) ==
    PyMax(0, user_limit(community_pass) - builds_used) > 0 \/ is_supporter

InitQuotaIdle ==
    /\ qt_now = 0
    /\ qt_log = <<>>
    /\ qt_pass = ""
    /\ qt_run = <<>>

\* the client opens its sessions; the builds table has no row of it yet
InitQuota ==
    /\ qt_now = 0
    /\ qt_log = <<>>
    /\ qt_pass \in {"", "KITA-2026"}
    /\ qt_run = [s \in QuotaSessions |-> [at |-> "idle", builds_used |-> 0]]

\* the button is pressed in session s: the script runs from the top, reads
\* builds_used, stops if the limit is reached, else starts the build
StartRun(s) ==
    /\ qt_run[s].at = "idle"
    /\ Len(qt_log) < MaxLogged
    /\ \E used \in {_get_build_count(qt_log, qt_now)} :
          qt_run' = [qt_run EXCEPT ![s] =
                        [at |-> IF CanBuild(qt_pass, used, FALSE) THEN "building"
                                ELSE "stopped",
                         builds_used |-> used]]
    /\ UNCHANGED <<qt_now, qt_log, qt_pass>>
    /\ UNCHANGED NotQuota

\* the build of session s completes: _log_build(client_ip)
FinishBuild(s) ==
    /\ qt_run[s].at = "building"
    /\ qt_log' = Append(qt_log, qt_now)
    /\ qt_run' = [qt_run EXCEPT ![s].at = "idle"]
    /\ UNCHANGED <<qt_now, qt_pass>>
    /\ UNCHANGED NotQuota

\* the build of session s raises: the error is shown, nothing is logged
FailBuild(s) ==
    /\ qt_run[s].at = "building"
    /\ qt_run' = [qt_run EXCEPT ![s].at = "idle"]
    /\ UNCHANGED <<qt_now, qt_log, qt_pass>>
    /\ UNCHANGED NotQuota

\* the limit message was shown (st.stop()); the session waits for the user
Stopped(s) ==
    /\ qt_run[s].at = "stopped"
    /\ qt_run' = [qt_run EXCEPT ![s].at = "idle"]
    /\ UNCHANGED <<qt_now, qt_log, qt_pass>>
    /\ UNCHANGED NotQuota

\* time passes
ClockTick ==
    /\ qt_now + ClockStep <= MaxClock
    /\ qt_now' = qt_now + ClockStep
    /\ UNCHANGED <<qt_log, qt_pass, qt_run>>
    /\ UNCHANGED NotQuota

NextQuota ==
    \/ \E s \in QuotaSessions : StartRun(s) \/ FinishBuild(s) \/ FailBuild(s) \/ Stopped(s)
    \/ ClockTick

(***************************************************************************)
(* QUEST DATABASE: quest_data.py                                           *)
(***************************************************************************)
\* Mission(id, title, movement, thinking, proof, xp, difficulty); the three
\* texts are kept as the wording they are in ("kid" as shipped)
Mission(id, xp, difficulty) ==
    [id |-> id, xp |-> xp, difficulty |-> difficulty, wording |-> "kid"]

\* Zone(id, ..., time_ranges, color, missions); a colour component is kept in
\* hundredths (0.95 is 95)
Zone(id, time_ranges, color, missions) ==
    [id |-> id, time_ranges |-> time_ranges, color |-> color, missions |-> missions]

ZONES ==
    << Zone("wachturm", << <<6, 9>> >>, <<95, 95, 85>>,
            << Mission("wt_01", 15, 1), Mission("wt_02", 20, 2), Mission("wt_03", 20, 1) >>),
       Zone("wilder_pfad", << <<9, 12>> >>, <<85, 95, 85>>,
            << Mission("wp_01", 25, 2), Mission("wp_02", 30, 3) >>),
       Zone("taverne", << <<12, 13>> >>, <<100, 90, 80>>,
            << Mission("tv_01", 20, 1), Mission("tv_02", 15, 1) >>),
       Zone("werkstatt", << <<13, 15>> >>, <<90, 90, 100>>,
            << Mission("ws_01", 30, 3), Mission("ws_02", 35, 4) >>),
       Zone("arena", << <<15, 17>> >>, <<100, 85, 85>>,
            << Mission("ar_01", 35, 3), Mission("ar_02", 40, 4) >>),
       Zone("ratssaal", << <<17, 19>> >>, <<95, 85, 95>>,
            << Mission("rs_01", 45, 4), Mission("rs_02", 40, 3) >>),
       Zone("quellen", << <<19, 21>> >>, <<80, 95, 100>>,
            << Mission("qq_01", 25, 2), Mission("qq_02", 25, 2) >>),
       Zone("trauminsel", << <<21, 24>>, <<0, 6>> >>, <<15, 15, 35>>,
            << Mission("ti_01", 20, 1), Mission("ti_02", 20, 1) >>) >>

DayHours == 0..(HOURS - 1)

\* _h: int(hour) % 24
_h(hour) == hour % HOURS

_in_range_EndInclusive(h, start, end) ==
    LET s == start % HOURS
        e == end % HOURS
    IN  IF s = e THEN TRUE
        ELSE IF s < e THEN s <= h /\ h <= e
        ELSE h >= s \/ h <= e

\* _in_range: end exclusive, start > end wraps, start = end is the full day
_in_range(h, start, end) ==
    LET s == start % HOURS
        e == end % HOURS
    IN  IF s = e THEN TRUE
        ELSE IF s < e THEN s <= h /\ h < e
        ELSE h >= s \/ h < e

\* for a, b in z.time_ranges: if _in_range(hr, a, b)
ZoneCovers(z, hr) ==
    \E k \in 1..Len(z.time_ranges) :
        _in_range(hr, z.time_ranges[k][1], z.time_ranges[k][2])

\* z_found: the first zone of the table, in order, with a matching range
\* (0 for None)
z_found(zones, hr) ==
    LET hits == {i \in 1..Len(zones) : ZoneCovers(zones[i], hr)}
    IN  IF hits = {} THEN 0 ELSE CHOOSE i \in hits : \A j \in hits : i <= j

\* the module-level loop that fills _HOUR_TO_ZONE
_HOUR_TO_ZONE_DefaultLast(zones) ==
    [hr \in DayHours |->
        IF z_found(zones, hr) # 0 THEN zones[z_found(zones, hr)] ELSE zones[Len(zones)]]

_HOUR_TO_ZONE(zones) ==
    [hr \in DayHours |->
        IF z_found(zones, hr) # 0 THEN zones[z_found(zones, hr)] ELSE zones[1]]

get_zone_for_hour(map, hour) == map[_h(hour)]

\* A colour component is a fraction of COLOR_ONE, so that the hundredths of
\* the zone colours, the night factor 0.55 and the 24 steps of the fallback
\* gradient are all whole numbers: 1.0 is 240000.
COLOR_ONE == 240000

\* max(0.0, min(1.0, float(x)))
ClampColor(x) == IF x < 0 THEN 0 ELSE IF x > COLOR_ONE THEN COLOR_ONE ELSE x

\* the factor of the hour, in hundredths: 0.55 at night, for h >= 21 or h < 6
NightFactor(h) == IF h >= 21 \/ h < 6 THEN 55 ELSE 100

\* quest_data.get_hour_color(hour): the colour of the hour's zone, darkened
\* at night; a zone colour of c hundredths times a factor of f hundredths
\* is c * f * 24 parts of COLOR_ONE
get_hour_color(map, hour) ==
    LET h == _h(hour)
        color == get_zone_for_hour(map, h).color
    IN  [k \in 1..3 |-> ClampColor(color[k] * NightFactor(h) * 24)]

\* app.py, _get_hour_color(hour): quest_data's colour when the module is
\* there, else the gradient with t = (hour % 24) / 24.0:
\* (0.45 + 0.25 * (1 - t), 0.2 + 0.15 * t, 0.9 - 0.25 * t)
_get_hour_color(qd, map, hour) ==
    IF qd THEN get_hour_color(map, hour)
    ELSE LET t24 == hour % 24
         IN  <<108000 + 2500 * (24 - t24), 48000 + 1500 * t24, 216000 - 2500 * t24>>

\* _adultize, _seniorize: new texts, the same id, xp and difficulty
_adultize_HalfXp(m) ==
    [id |-> m.id, xp |-> m.xp \div 2, difficulty |-> m.difficulty, wording |-> "adult"]

_adultize(m) ==
    [id |-> m.id, xp |-> m.xp, difficulty |-> m.difficulty, wording |-> "adult"]

_seniorize(m) ==
    [id |-> m.id, xp |-> m.xp, difficulty |-> m.difficulty, wording |-> "senior"]

adapt_mission(m, audience) ==
    IF audience = "kid" THEN m
    ELSE IF audience = "adult" THEN _adultize(m)
    ELSE _seniorize(m)

\* random.Random(seed).choice(pool): the first draw of a generator seeded
\* with seed, scaled to an index of the pool
RandomChoice(seed, pool) ==
    pool[((RngAdvance(default_rng(seed)) * Len(pool)) \div RNG_MOD) + 1]

\* d = max(1, min(5, int(difficulty)))
ClampDifficulty(difficulty) ==
    IF difficulty < 1 THEN 1 ELSE IF difficulty > 5 THEN 5 ELSE difficulty

\* pool = [m for m in z.missions if m.difficulty <= d] or list(z.missions)
MissionPool_NoFilter(z, d) == z.missions

MissionPool(z, d) ==
    LET easy == SelectSeq(z.missions, LAMBDA m : m.difficulty <= d)
    IN  IF easy # <<>> THEN easy ELSE z.missions

pick_mission_for_time(map, hour, difficulty, seed, audience) ==
    LET z == get_zone_for_hour(map, hour)
        d == ClampDifficulty(difficulty)
        pool == MissionPool(z, d)
        chosen == RandomChoice(seed, pool)
    IN  adapt_mission(chosen, audience)

\* [m for z in ZONES for m in z.missions]
RECURSIVE AllMissions(_)
AllMissions(zones) ==
    IF zones = <<>> THEN <<>> ELSE Head(zones).missions \o AllMissions(Tail(zones))

Issue(kind, about) == [kind |-> kind, about |-> about]

IssueIf(cond, issue) == IF cond THEN <<issue>> ELSE <<>>

\* len(zone_ids) != len(set(zone_ids))
ZoneIdIssues(zones) ==
    IssueIf(Len(zones) # Cardinality({zones[i].id : i \in 1..Len(zones)}),
            Issue("zone_ids", "ZONES"))

\* len(mission_ids) != len(set(mission_ids))
MissionIdIssues(zones) ==
    LET ms == AllMissions(zones)
    IN  IssueIf(Len(ms) # Cardinality({ms[i].id : i \in 1..Len(ms)}),
                Issue("mission_ids", "ZONES"))

\* not (1 <= int(m.difficulty) <= 5), one issue per mission
DifficultyIssues(zones) ==
    LET bad == SelectSeq(AllMissions(zones),
                         LAMBDA m : ~(1 <= m.difficulty /\ m.difficulty <= 5))
    IN  [i \in 1..Len(bad) |-> Issue("difficulty", bad[i].id)]

\* the sanity check of one range (the hours are ints, so the isinstance
\* test never reports):
\* not (0 <= a % 24 <= 23) or not (0 <= b % 24 <= 23) and b != 24
RECURSIVE RangeIssues(_, _)
RangeIssues(id, ranges) ==
    IF ranges = <<>> THEN <<>>
    ELSE LET a == Head(ranges)[1]
             b == Head(ranges)[2]
             bad == \/ ~(0 <= a % 24 /\ a % 24 <= 23)
                    \/ (~(0 <= b % 24 /\ b % 24 <= 23) /\ b # 24)
         IN  IssueIf(bad, Issue("time_range", id)) \o RangeIssues(id, Tail(ranges))

\* for z in ZONES: no time_ranges at all, then each of its ranges
RECURSIVE TimeRangeIssues(_)
TimeRangeIssues(zones) ==
    IF zones = <<>> THEN <<>>
    ELSE LET z == Head(zones)
         IN  IssueIf(z.time_ranges = <<>>, Issue("no_time_ranges", z.id))
             \o RangeIssues(z.id, z.time_ranges)
             \o TimeRangeIssues(Tail(zones))

\* uncovered: the hours hr for which _HOUR_TO_ZONE.get(hr) is None, that is
\* the hours that are no key of the mapping
Uncovered(map) == {hr \in DayHours : hr \notin DOMAIN map}

CoverageIssues(map) == IssueIf(Uncovered(map) # {}, Issue("coverage", "hours"))

validate_quest_db(zones, map) ==
    ZoneIdIssues(zones) \o MissionIdIssues(zones) \o DifficultyIssues(zones)
    \o TimeRangeIssues(zones) \o CoverageIssues(map)

\* ---- the callers of the quest database ----
\* The functions of the public API read the table and change nothing: a
\* behaviour is the import of the module and one call.
\* bounds of the arguments
MaxHour == 30
MaxDifficulty == 6
MaxQuestSeed == 2

QuestHours == (0 - MaxHour)..MaxHour
Difficulties == 0..MaxDifficulty
QuestSeeds == 0..MaxQuestSeed
Audiences == {"kid", "adult", "senior", "teen"}

\* the shipped table and edits of it that break one rule each
WithZone(zones, i, z) == [zones EXCEPT ![i] = z]

ZonesDupZoneId == WithZone(ZONES, 2, [ZONES[2] EXCEPT !.id = "wachturm"])

ZonesDupMissionId ==
    WithZone(ZONES, 2, [ZONES[2] EXCEPT !.missions[1].id = "wt_01"])

ZonesBadDifficulty(d) ==
    WithZone(ZONES, 1, [ZONES[1] EXCEPT !.missions[1].difficulty = d])

\* the arena ends an hour early: no zone covers 16:00
ZonesGap == WithZone(ZONES, 5, [ZONES[5] EXCEPT !.time_ranges = << <<15, 16>> >>])

\* the taverne has no time range: no zone covers 12:00
ZonesNoRanges == WithZone(ZONES, 3, [ZONES[3] EXCEPT !.time_ranges = <<>>])

\* the quellen start two hours early: 17:00 and 18:00 are in two zones
ZonesOverlap == WithZone(ZONES, 7, [ZONES[7] EXCEPT !.time_ranges = << <<17, 21>> >>])

ZoneTables ==
    {ZONES, ZonesDupZoneId, ZonesDupMissionId, ZonesBadDifficulty(0),
     ZonesBadDifficulty(6), ZonesGap, ZonesNoRanges, ZonesOverlap}

NoZone == Zone("", <<>>, <<0, 0, 0>>, <<>>)
NoMission == Mission("", 0, 0)

QuestCall(fn, hour, difficulty, seed, audience, zone, mission, issues) ==
    [fn |-> fn, hour |-> hour, difficulty |-> difficulty, seed |-> seed,
     audience |-> audience, zone |-> zone, mission |-> mission, issues |-> issues]

NoQuestCall == QuestCall("", 0, 0, 0, "", NoZone, NoMission, <<>>)

InitQuestIdle ==
    /\ q_zones = ZONES
    /\ q_map = _HOUR_TO_ZONE(ZONES)
    /\ q_call = NoQuestCall
    /\ q_colors = <<>>

\* the module is imported: ZONES is read, _HOUR_TO_ZONE is computed
InitQuest ==
    /\ q_zones \in ZoneTables
    /\ q_map = _HOUR_TO_ZONE(q_zones)
    /\ q_call = NoQuestCall
    /\ q_colors = <<>>

GetZoneForHour ==
    /\ q_call = NoQuestCall
    /\ q_colors = <<>>
    /\ \E hour \in QuestHours :
          q_call' = QuestCall("get_zone_for_hour", hour, 0, 0, "",
                              get_zone_for_hour(q_map, hour), NoMission, <<>>)
    /\ UNCHANGED <<q_zones, q_map, q_colors>>
    /\ UNCHANGED NotQuest

PickMissionForTime ==
    /\ q_call = NoQuestCall
    /\ q_colors = <<>>
    /\ \E hour \in QuestHours, difficulty \in Difficulties,
          seed \in QuestSeeds, audience \in Audiences :
          q_call' = QuestCall("pick_mission_for_time", hour, difficulty, seed, audience,
                              get_zone_for_hour(q_map, hour),
                              pick_mission_for_time(q_map, hour, difficulty, seed, audience),
                              <<>>)
    /\ UNCHANGED <<q_zones, q_map, q_colors>>
    /\ UNCHANGED NotQuest

ValidateQuestDb ==
    /\ q_call = NoQuestCall
    /\ q_colors = <<>>
    /\ q_call' = QuestCall("validate_quest_db", 0, 0, 0, "", NoZone, NoMission,
                           validate_quest_db(q_zones, q_map))
    /\ UNCHANGED <<q_zones, q_map, q_colors>>
    /\ UNCHANGED NotQuest

\* _draw_quest_overlay asks _get_hour_color for the header colour of a page;
\* quest_data is imported or missing for the whole run
HeaderColorCalls == {1, 2}

GetHourColor ==
    /\ q_call = NoQuestCall
    /\ Len(q_colors) < Cardinality(HeaderColorCalls)
    /\ \E hour \in QuestHours, qd \in BOOLEAN :
          /\ IF q_colors = <<>> THEN TRUE ELSE q_colors[1].qd = qd
          /\ q_colors' = Append(q_colors,
                                 [qd |-> qd, hour |-> hour,
                                  rgb |-> _get_hour_color(qd, q_map, hour)])
    /\ UNCHANGED <<q_zones, q_map, q_call>>
    /\ UNCHANGED NotQuest

NextQuest == GetZoneForHour \/ PickMissionForTime \/ ValidateQuestDb \/ GetHourColor

(***************************************************************************)
(* TRAINER EXPORT: kern/export_orchestrator.py, run_export, and            *)
(* kern/exports/trainer_kdp.py, export_trainer_kdp.  The drawing calls     *)
(* (header, boxes, writing areas) put ink on the current page and end no   *)
(* page; a page of the document is what one showPage() ends.               *)
(***************************************************************************)
\* a Python str: its text without the blanks at its two ends, and how many
\* blanks there are at each end
Str(core) == [core |-> core, lead |-> 0, trail |-> 0]
Padded(core) == [core |-> core, lead |-> 1, trail |-> 1]
Blank == [core |-> "", lead |-> 1, trail |-> 0]

\* s.strip()
strip(s) == [s EXCEPT !.lead = 0, !.trail = 0]

\* an entry of a vocab or items list: a dict with its texts, or no dict
VocabEntry(word, translation) ==
    [is_dict |-> TRUE, word |-> word, translation |-> translation, term |-> Str("")]
ItemEntry(term) ==
    [is_dict |-> TRUE, word |-> Str(""), translation |-> Str(""), term |-> term]
NoDictEntry ==
    [is_dict |-> FALSE, word |-> Str(""), translation |-> Str(""), term |-> Str("")]

\* the payload: no dict at all, or a dict with its module, vocab, items and
\* the images of its assets (a key that is absent reads as None)
NotADict ==
    [is_dict |-> FALSE, module |-> Str(""), vocab |-> PyNone, items |-> PyNone, images |-> <<>>]
Payload(module, vocab, items, images) ==
    [is_dict |-> TRUE, module |-> module, vocab |-> vocab, items |-> items, images |-> images]

\* isinstance(v, list) and v
NonEmptyList(v) == ~v.none /\ v.list # <<>>

Word(w, t) == [word |-> w, translation |-> t]

\* the loop over vocab: the stripped word and translation of every dict
RECURSIVE VocabOf(_)
VocabOf(l) ==
    IF l = <<>> THEN <<>>
    ELSE (IF Head(l).is_dict
          THEN <<Word(strip(Head(l).word), strip(Head(l).translation))>>
          ELSE <<>>) \o VocabOf(Tail(l))

\* [v for v in out if v["word"] or v["translation"]]
RECURSIVE WithText(_)
WithText(l) ==
    IF l = <<>> THEN <<>>
    ELSE (IF Head(l).word # Str("") \/ Head(l).translation # Str("")
          THEN <<Head(l)>>
          ELSE <<>>) \o WithText(Tail(l))

\* the loop over items: a word for every dict with a term that is not blank
RECURSIVE TermsOf(_)
TermsOf(l) ==
    IF l = <<>> THEN <<>>
    ELSE (IF Head(l).is_dict /\ strip(Head(l).term) # Str("")
          THEN <<Word(strip(Head(l).term), Str(""))>>
          ELSE <<>>) \o TermsOf(Tail(l))

\* _coerce_vocab(data)
_coerce_vocab(data) ==
    IF NonEmptyList(data.vocab) THEN WithText(VocabOf(data.vocab.list))
    ELSE IF NonEmptyList(data.items) THEN TermsOf(data.items.list)
    ELSE <<>>

\* the page of one vocabulary entry: word, translation and, when there are
\* images, images[img_i % len(images)]
VocabPage(it, images, img_i) ==
    [kind |-> "vocab", word |-> strip(it.word), translation |-> strip(it.translation),
     img |-> IF images = <<>> THEN 0 ELSE images[(img_i % Len(images)) + 1]]

\* a filler page: header and writing area
FillerPage ==
    [kind |-> "filler", word |-> Str(""), translation |-> Str(""), img |-> 0]

\* the loop `for it in vocab`: showPage() once per entry
RECURSIVE VocabLoop(_, _, _)
VocabLoop(vocab, images, done) ==
    IF vocab = <<>> THEN done
    ELSE VocabLoop(Tail(vocab), images,
                   Append(done, VocabPage(Head(vocab), images, Len(done))))

\* the loop `while pages < int(min_pages)`
RECURSIVE FillLoopKdp_Exact(_, _)
FillLoopKdp_Exact(done, min_count) ==
    IF min_count <= 0 THEN done
    ELSE IF Len(done) = min_count THEN done
    ELSE IF Len(done) > min_count THEN SubSeq(done, 1, min_count)
    ELSE FillLoopKdp_Exact(Append(done, FillerPage), min_count)

RECURSIVE FillLoopKdp(_, _)
FillLoopKdp(done, min_count) ==
    IF Len(done) < min_count THEN FillLoopKdp(Append(done, FillerPage), min_count)
    ELSE done

\* what a call returns: bytes of an exporter, or the exception it raised
ExportResult(raised, exporter, bridged, doc) ==
    [raised |-> raised, exporter |-> exporter, bridged |-> bridged, doc |-> doc]

\* export_trainer_kdp(data, min_pages=24)
export_trainer_kdp(data, min_count) ==
    IF ~data.is_dict THEN ExportResult("ValueError", "trainer_kdp", FALSE, <<>>)
    ELSE LET coerced == _coerce_vocab(data)
             vocab == IF coerced = <<>> THEN <<Word(Str(""), Str(""))>> ELSE coerced
         IN  ExportResult("", "trainer_kdp", FALSE,
                          FillLoopKdp(VocabLoop(vocab, data.images, <<>>), min_count))

\* export_trainer_a4 and export_trainer_cards: the sheet and the cards; their
\* documents are not modelled page by page
export_trainer_a4(data) == ExportResult("", "trainer_a4", FALSE, <<>>)
export_trainer_cards(data) == ExportResult("", "trainer_cards", FALSE, <<>>)

\* _bridge_legacy_items_to_trainer_v2(data, default_lines)
_bridge_legacy_items_to_trainer_v2(data) ==
    LET terms == TermsOf(OrEmpty(data.items))
    IN  Payload(Str("trainer_v2"),
                PyList([n \in 1..Len(terms) |-> VocabEntry(terms[n].word, Str(""))]),
                data.items, <<>>)

KDP_DEFAULT_MIN_PAGES == 24

\* kwargs.get("min_pages", 24)
KwMinPages(kw) == IF kw.given THEN kw.min_pages ELSE KDP_DEFAULT_MIN_PAGES

Bridged(r) == [r EXCEPT !.bridged = TRUE]

Unsupported == ExportResult("ValueError", "", FALSE, <<>>)

\* run_export(mode, data, **kwargs)
run_export_DefaultKdp(mode_arg, data, kw) ==
    IF ~data.is_dict THEN Unsupported
    ELSE export_trainer_kdp(data, KwMinPages(kw))

run_export(mode_arg, data, kw) ==
    IF ~data.is_dict THEN Unsupported
    ELSE LET mode == strip(mode_arg)
             module == strip(data.module)
         IN  IF module = Str("trainer_v2")
             THEN IF mode = Str("A4 Arbeitsblatt") THEN export_trainer_a4(data)
                  ELSE IF mode = Str("QR Lernkarten") THEN export_trainer_cards(data)
                  ELSE IF mode = Str("KDP Buch")
                  THEN export_trainer_kdp(data, KwMinPages(kw))
                  ELSE Unsupported
             ELSE IF ~data.items.none
             THEN LET bridged == _bridge_legacy_items_to_trainer_v2(data)
                  IN  IF mode = Str("A4 Arbeitsblatt")
                      THEN Bridged(export_trainer_a4(bridged))
                      ELSE IF mode = Str("QR Lernkarten")
                      THEN Bridged(export_trainer_cards(bridged))
                      ELSE IF mode = Str("KDP Buch")
                      THEN Bridged(export_trainer_kdp(bridged, KwMinPages(kw)))
                      ELSE Unsupported
             ELSE Unsupported

\* ---- the caller of run_export: one call per behaviour ----
\* bound of the min_pages keyword
MaxExportMin == 4

ExportModes ==
    {Str("KDP Buch"), Padded("KDP Buch"), Str("A4 Arbeitsblatt"), Str("QR Lernkarten"),
     Str("PDF"), Str("")}

ExportModules == {Str("trainer_v2"), Padded("trainer_v2"), Str(""), Str("quest")}

Hund == VocabEntry(Str("Hund"), Str("dog"))
Katze == VocabEntry(Padded("Katze"), Str(""))
OnlyTranslation == VocabEntry(Blank, Str("bird"))
Unusable == VocabEntry(Blank, Str(""))

VocabLists ==
    {PyNone, PyList(<<>>), PyList(<<Hund>>), PyList(<<Unusable>>), PyList(<<NoDictEntry>>),
     PyList(<<Hund, Katze>>), PyList(<<Katze, Hund>>), PyList(<<OnlyTranslation, Hund>>),
     PyList(<<Hund, Unusable, Katze>>), PyList(<<NoDictEntry, Katze, Hund>>),
     PyList(<<Hund, Katze, OnlyTranslation, Hund, Katze>>)}

ItemLists ==
    {PyNone, PyList(<<>>), PyList(<<ItemEntry(Str("Hund"))>>),
     PyList(<<ItemEntry(Str("Hund")), ItemEntry(Padded("Katze"))>>),
     PyList(<<ItemEntry(Blank), NoDictEntry>>),
     PyList(<<NoDictEntry, ItemEntry(Str("Katze")), ItemEntry(Blank), ItemEntry(Str("Hund"))>>)}

ImageLists == {<<>>, <<1, 2>>}

ExportPayloads ==
    {NotADict} \cup
    {Payload(m, v, i, g) : m \in ExportModules, v \in VocabLists,
                           i \in ItemLists, g \in ImageLists}

ExportKwargs ==
    {[given |-> FALSE, min_pages |-> 0]} \cup
    {[given |-> TRUE, min_pages |-> n] : n \in (0 - 1)..MaxExportMin}

NoExportCall ==
    [called |-> FALSE, mode |-> Str(""), data |-> NotADict,
     kw |-> [given |-> FALSE, min_pages |-> 0], res |-> ExportResult("", "", FALSE, <<>>)]

InitExportIdle == x_call = NoExportCall

InitExport == x_call = NoExportCall

RunExport ==
    /\ ~x_call.called
    /\ \E mode \in ExportModes, data \in ExportPayloads, kw \in ExportKwargs :
          x_call' = [called |-> TRUE, mode |-> mode, data |-> data, kw |-> kw,
                     res |-> run_export(mode, data, kw)]
    /\ UNCHANGED NotExport

NextExport == RunExport

(***************************************************************************)
(* Specifications.                                                         *)
(***************************************************************************)
InitSpecPreflight ==
    InitPreflight /\ InitLruIdle /\ InitCacheIdle /\ InitSchedIdle /\ InitBuildIdle /\ InitQuestIdle /\ InitCoverIdle
    /\ InitExportIdle
    /\ InitSessionsIdle
    /\ InitPickIdle
    /\ InitQuotaIdle
SpecPreflight == InitSpecPreflight /\ [][NextPreflight]_vars

InitSpecLru ==
    InitLru /\ InitPreflightIdle /\ InitCacheIdle /\ InitSchedIdle /\ InitBuildIdle /\ InitQuestIdle /\ InitCoverIdle
    /\ InitExportIdle
    /\ InitSessionsIdle
    /\ InitPickIdle
    /\ InitQuotaIdle
SpecLru == InitSpecLru /\ [][NextLru]_vars

InitSpecCache ==
    InitCache /\ InitPreflightIdle /\ InitLruIdle /\ InitSchedIdle /\ InitBuildIdle /\ InitQuestIdle /\ InitCoverIdle
    /\ InitExportIdle
    /\ InitSessionsIdle
    /\ InitPickIdle
    /\ InitQuotaIdle
SpecCache == InitSpecCache /\ [][NextCache]_vars

SpecCacheDrop == InitSpecCache /\ [][NextCacheDrop]_vars

InitSpecSessions ==
    InitCacheIdle /\ InitPreflightIdle /\ InitLruIdle /\ InitSchedIdle /\ InitBuildIdle /\ InitQuestIdle /\ InitCoverIdle
    /\ InitExportIdle
    /\ InitSessions
    /\ InitPickIdle
    /\ InitQuotaIdle
SpecSessions == InitSpecSessions /\ [][NextSessions]_vars

\* the loop is scheduled as long as it can take a step
InitSpecPick ==
    InitCacheIdle /\ InitPreflightIdle /\ InitLruIdle /\ InitSchedIdle /\ InitBuildIdle /\ InitQuestIdle /\ InitCoverIdle
    /\ InitExportIdle
    /\ InitSessionsIdle
    /\ InitPick
    /\ InitQuotaIdle
SpecPick == InitSpecPick /\ [][NextPick]_vars /\ WF_vars(NextPick)

InitSpecQuota ==
    InitCacheIdle /\ InitPreflightIdle /\ InitLruIdle /\ InitSchedIdle /\ InitBuildIdle /\ InitQuestIdle /\ InitCoverIdle
    /\ InitExportIdle
    /\ InitSessionsIdle
    /\ InitPickIdle
    /\ InitQuota
SpecQuota == InitSpecQuota /\ [][NextQuota]_vars

InitSpecSchedule ==
    InitSched /\ InitPreflightIdle /\ InitLruIdle /\ InitCacheIdle /\ InitBuildIdle /\ InitQuestIdle /\ InitCoverIdle
    /\ InitExportIdle
    /\ InitSessionsIdle
    /\ InitPickIdle
    /\ InitQuotaIdle
SpecSchedule == InitSpecSchedule /\ [][NextSched]_vars

InitSpecBuild ==
    InitBuild /\ InitCache /\ InitPreflightIdle /\ InitLruIdle /\ InitSchedIdle /\ InitQuestIdle /\ InitCoverIdle
    /\ InitExportIdle
    /\ InitSessionsIdle
    /\ InitPickIdle
    /\ InitQuotaIdle
SpecBuild == InitSpecBuild /\ [][NextBuild]_vars

InitSpecInterior ==
    InitInterior /\ InitCache /\ InitPreflightIdle /\ InitLruIdle /\ InitSchedIdle /\ InitQuestIdle /\ InitCoverIdle
    /\ InitExportIdle
    /\ InitSessionsIdle
    /\ InitPickIdle
    /\ InitQuotaIdle
SpecInterior == InitSpecInterior /\ [][NextBuild]_vars

InitSpecRepeat ==
    InitRepeat /\ InitPreflightIdle /\ InitLruIdle /\ InitSchedIdle /\ InitQuestIdle /\ InitCoverIdle
    /\ InitExportIdle
    /\ InitSessionsIdle
    /\ InitPickIdle
    /\ InitQuotaIdle
SpecRepeat == InitSpecRepeat /\ [][NextBuild]_vars

InitSpecQuest ==
    InitQuest /\ InitPreflightIdle /\ InitLruIdle /\ InitCacheIdle /\ InitSchedIdle /\ InitBuildIdle
    /\ InitCoverIdle
    /\ InitExportIdle
    /\ InitSessionsIdle
    /\ InitPickIdle
    /\ InitQuotaIdle
SpecQuest == InitSpecQuest /\ [][NextQuest]_vars

InitSpecCover ==
    InitCover /\ InitPreflightIdle /\ InitLruIdle /\ InitCacheIdle /\ InitSchedIdle /\ InitBuildIdle
    /\ InitQuestIdle
    /\ InitExportIdle
    /\ InitSessionsIdle
    /\ InitPickIdle
    /\ InitQuotaIdle
SpecCover == InitSpecCover /\ [][NextCover]_vars

InitSpecExport ==
    InitExport /\ InitPreflightIdle /\ InitLruIdle /\ InitCacheIdle /\ InitSchedIdle /\ InitBuildIdle
    /\ InitQuestIdle /\ InitCoverIdle
    /\ InitSessionsIdle
    /\ InitPickIdle
    /\ InitQuotaIdle
SpecExport == InitSpecExport /\ [][NextExport]_vars

(***************************************************************************)
(* Claims about the preflight.                                             *)
(***************************************************************************)
\* number of pages the caller handed in (None counts as no pages)
InputLen == Len(OrEmpty(pages))

\* C1: padding. When the input has n < min_pages pages, the result has
\* exactly min_pages entries, its k-th appended entry is
\* make_reflection_page(n + k), and the factory was called exactly
\* min_pages - n times with n+1, n+2, ..., min_pages in ascending order.
C1_Padding ==
    (pf_pc = "returned" /\ InputLen < min_pages) =>
        /\ Len(out) = min_pages
        /\ \A k \in 1..(min_pages - InputLen) :
              out[InputLen + k] = [kind |-> "reflection", page_no |-> InputLen + k]
        /\ calls = [k \in 1..(min_pages - InputLen) |-> InputLen + k]

\* the worked example: ten pages, minimum 24, fillers numbered 11..24
C1_Witness ==
    /\ pf_pc = "returned"
    /\ InputLen = ExamplePages
    /\ min_pages = DEFAULT_MIN_PAGES
    /\ Len(out) = DEFAULT_MIN_PAGES
    /\ calls = [k \in 1..(DEFAULT_MIN_PAGES - ExamplePages) |-> ExamplePages + k]

\* C2: no reordering, renumbering, removal or truncation. Every call of
\* ensure_min_pages (for a list, an empty list or None, and any min_pages,
\* also <= 0) returns a list that has the input pages as a prefix, so it is
\* at least as long, and leaves the caller's list as it was.
C2_PrefixKept ==
    [][ /\ (pf_pc = "ready" /\ pf_pc' = "returned") =>
            /\ pages' = pages
            /\ IsPrefix(OrEmpty(pages), out')
            /\ Len(out') >= Len(OrEmpty(pages))
        /\ (pf_pc = "returned" /\ pf_pc' = "reapplied") =>
            /\ out' = out
            /\ IsPrefix(out, out2')
            /\ Len(out2') >= Len(out) ]_vars

\* a non-empty input list that was padded, and is still what the caller holds
C2_Witness ==
    /\ pf_pc = "returned"
    /\ ~pages.none
    /\ InputLen > 0
    /\ Len(out) > InputLen
    /\ IsPrefix(pages.list, out)

\* C3: idempotence on sufficient input. When len(pages) >= min_pages the
\* result equals the input and the factory is never called; applying
\* ensure_min_pages to its own output with the same min_pages returns an
\* equal list and calls the factory no more.
C3_Idempotent ==
    /\ (pf_pc = "returned" /\ InputLen >= min_pages) =>
            (out = OrEmpty(pages) /\ calls = <<>>)
    /\ pf_pc = "reapplied" => (out2 = out /\ calls2 = <<>>)

\* an output that had been padded is fed back and comes back unchanged
C3_Witness ==
    /\ pf_pc = "reapplied"
    /\ calls # <<>>
    /\ out2 = out
    /\ calls2 = <<>>

\* a list longer than a positive min_pages came back as it was
C3_WitnessLonger ==
    /\ pf_pc = "returned"
    /\ min_pages > 0
    /\ InputLen > min_pages
    /\ out = pages.list


(***************************************************************************)
(* Claims about the caches.                                                *)
(***************************************************************************)
\* the last operation issued
LastOp == lru_hist[Len(lru_hist)]

\* C4: LRU order. The entry a put evicts is the one whose last use
\* (insertion or hit) is the oldest of all entries, the entries stay ordered
\* by last use, and a hit makes the entry the most recently used one. With
\* capacity 2: after put(a); put(b); put(c) the cache no longer holds a, and
\* with a get(b) before put(c) the cache still holds b after put(c).
C4_EvictsOldest ==
    \A n \in 1..Len(lru_evicted) :
        \A k \in Keys(lru) : lru_use[lru_evicted[n]] < lru_use[k]

C4_OrderedByUse ==
    \A i, j \in 1..Len(lru) : i < j => lru_use[lru[i].k] < lru_use[lru[j].k]

C4_HitPromotes ==
    (lru_hist # <<>> /\ LastOp[1] = "get" /\ Contains(lru, LastOp[2])) =>
        lru[Len(lru)].k = LastOp[2]

C4_Example ==
    \A a, b, c \in LruKeys :
        (lru_cap = 2 /\ a # b /\ a # c /\ b # c) =>
            /\ lru_hist = << <<"put", a>>, <<"put", b>>, <<"put", c>> >> =>
                   Keys(lru) = {b, c}
            /\ lru_hist = << <<"put", a>>, <<"put", b>>, <<"get", b>>, <<"put", c>> >> =>
                   Contains(lru, b)
            /\ lru_hist = << <<"put", a>>, <<"put", b>>, <<"get", a>>, <<"put", c>> >> =>
                   Keys(lru) = {a, c}

C4_LruOrder ==
    (lru_hist # <<>>) =>
        (C4_EvictsOldest /\ C4_OrderedByUse /\ C4_HitPromotes /\ C4_Example)

\* capacity 2, put(a); put(b); get(a); put(c): b was evicted, a was kept
C4_Witness ==
    /\ lru_cap = 2
    /\ lru_hist = << <<"put", 1>>, <<"put", 2>>, <<"get", 1>>, <<"put", 3>> >>
    /\ lru_evicted = <<2>>
    /\ Keys(lru) = {1, 3}

\* the cache and the capacity of a function
CacheOf(fn) == IF fn = "wash" THEN wash_cache ELSE sketch_cache
CapacityOf(fn) == IF fn = "wash" THEN MAX_WASH_CACHE ELSE MAX_SKETCH_CACHE
Min(a, b) == IF a <= b THEN a ELSE b

\* C5: capacity. Whenever a call of _wash_upload_to_bytes or
\* _get_sketch_cached has returned, the wash cache holds at most 64 and the
\* sketch cache at most 256 entries; a put that would exceed the capacity
\* evicts entries until the size is back at the capacity, and the entry just
\* inserted is never among the evicted ones.
C5_Capacity ==
    /\ Len(wash_cache) <= MAX_WASH_CACHE
    /\ Len(sketch_cache) <= MAX_SKETCH_CACHE
    /\ \A fn \in {"wash", "sketch"} :
          (last[fn].n > 0 /\ last[fn].inserted) =>
              /\ Contains(CacheOf(fn), last[fn].key)
              /\ last[fn].key \notin Range(last[fn].evicted)
              /\ Len(CacheOf(fn)) = Min(last[fn].before + 1, CapacityOf(fn))
              /\ Len(last[fn].evicted) = last[fn].before + 1 - Len(CacheOf(fn))

\* both caches are full and the last put of each evicted an entry
C5_Witness ==
    /\ Len(wash_cache) = MAX_WASH_CACHE
    /\ Len(sketch_cache) = MAX_SKETCH_CACHE
    /\ last.wash.inserted /\ Len(last.wash.evicted) = 1
    /\ last.sketch.inserted /\ Len(last.sketch.evicted) = 1

\* C6: cache idempotence. When a function is called with the input of its
\* previous call, and that call returned, the second call is served from the
\* cache: it does not invoke the transform (_wash_bytes, _sketch_compute),
\* inserts nothing and returns exactly the bytes the first call returned.
C6_CacheIdempotent ==
    [][ \A fn \in {"wash", "sketch"} :
          ( /\ last[fn].n > 0
            /\ last'[fn].n = last[fn].n + 1
            /\ last[fn].ok
            /\ last'[fn].input = last[fn].input ) =>
          ( /\ last'[fn].ok
            /\ ~last'[fn].ran
            /\ ~last'[fn].inserted
            /\ last'[fn].ret = last[fn].ret ) ]_vars

\* a sketch request was repeated and served without the transform
C6_Witness ==
    /\ c_note = <<"sketch", "repeat">>
    /\ last.sketch.n >= 2
    /\ last.sketch.ok
    /\ ~last.sketch.ran
    /\ Contains(sketch_cache, last.sketch.key)

\* a wash request was repeated and served without the transform
C6_WitnessWash ==
    /\ c_note = <<"wash", "repeat">>
    /\ last.wash.n >= 2
    /\ last.wash.ok
    /\ ~last.wash.ran
    /\ Contains(wash_cache, last.wash.key)

\* what the wash stage returns for an upload without a cache: read, then wash
UncachedWash(up) ==
    LET rd == _read_upload_bytes(up)
    IN  IF rd.ok THEN _wash_bytes(rd.val) ELSE rd

\* what the sketch stage returns for a request <<bytes, w, h>> without a cache
UncachedSketch(req) == _sketch_compute(req[1], req[2], req[3])

\* C24: cache transparency. Whatever requests came before, and also after the
\* session lost a cache, a call of _wash_upload_to_bytes or _get_sketch_cached
\* returns exactly when the uncached transform of its input returns, and then
\* with the same bytes; every entry of the wash cache holds, under the hash of
\* some raw bytes, the wash of those bytes, and every entry of the sketch
\* cache holds, under (hash, width, height), the sketch of those bytes in that
\* size.
C24_CacheTransparency ==
    /\ last.wash.n > 0 =>
          /\ last.wash.ok = UncachedWash(last.wash.input).ok
          /\ last.wash.ok => last.wash.ret = UncachedWash(last.wash.input).val
    /\ last.sketch.n > 0 =>
          /\ last.sketch.ok = UncachedSketch(last.sketch.input).ok
          /\ last.sketch.ok => last.sketch.ret = UncachedSketch(last.sketch.input).val
    /\ \A i \in 1..Len(wash_cache) :
          /\ wash_cache[i].k[1] = "sha256"
          /\ _wash_bytes(wash_cache[i].k[2]).ok
          /\ wash_cache[i].v = _wash_bytes(wash_cache[i].k[2]).val
    /\ \A i \in 1..Len(sketch_cache) :
          LET k == sketch_cache[i].k
          IN  /\ k[1][1] = "sha256"
              /\ UncachedSketch(<<k[1][2], k[2], k[3]>>).ok
              /\ sketch_cache[i].v = UncachedSketch(<<k[1][2], k[2], k[3]>>).val

\* the last wash was served from the cache; the last sketch repeated a
\* request after the session lost the sketch cache, ran the transform again
\* and returned the sketch in the requested size
C24_Witness ==
    /\ c_drops = 1
    /\ c_note = <<"sketch", "repeat">>
    /\ last.sketch.ok /\ last.sketch.ran
    /\ last.sketch.ret.w = last.sketch.input[2]
    /\ last.sketch.ret.h = last.sketch.input[3]
    /\ last.wash.ok /\ ~last.wash.ran
    /\ Contains(sketch_cache, last.sketch.key)

\* the caches of a session as its script finds them
SessionCache(s, name) == _get_lru(ss_state, s, name)
CacheName(fn) == IF fn = "wash" THEN "wash_cache" ELSE "sketch_cache"

\* the same call made in one piece on the cache the call started with
CallAlone(rec) ==
    IF rec.fn = "wash" THEN _wash_upload_to_bytes(rec.start, rec.up)
    ELSE _get_sketch_cached(rec.start, rec.img_bytes, rec.w, rec.h)

\* session s is not inside a call that works on cache `name`
Settled(s, name) == ss_pc[s].at \in {"wash", "sketch"} \/ ss_pc[s].name # name

\* every session's caches are within their capacity between calls, and the
\* cache a finished call worked on is exactly what that call alone makes of
\* the cache it started with: same entries, same order, same result
C25_EachSessionAlone ==
    \A s \in Sessions :
        /\ Settled(s, "wash_cache") =>
               Len(SessionCache(s, "wash_cache")) <= MAX_WASH_CACHE
        /\ Settled(s, "sketch_cache") =>
               Len(SessionCache(s, "sketch_cache")) <= MAX_SKETCH_CACHE
        /\ (ss_last[s].n > 0 /\ Settled(s, CacheName(ss_last[s].fn))) =>
               /\ SessionCache(s, CacheName(ss_last[s].fn)) = CallAlone(ss_last[s]).cache
               /\ ss_last[s].ok = CallAlone(ss_last[s]).ok
               /\ ss_last[s].ran = CallAlone(ss_last[s]).ran
               /\ ss_last[s].ok => ss_last[s].ret = CallAlone(ss_last[s]).ret

\* a step is the step of one session and leaves the caches, the position and
\* the last result of every other session as they were
C25_OneSessionPerStep ==
    \E t \in Sessions : \A s \in Sessions \ {t} :
        /\ SessionCache(s, "wash_cache")' = SessionCache(s, "wash_cache")
        /\ SessionCache(s, "sketch_cache")' = SessionCache(s, "sketch_cache")
        /\ ss_pc'[s] = ss_pc[s]
        /\ ss_last'[s] = ss_last[s]

\* C25: the caches are sharded per session. Under any interleaving of the
\* steps of cached calls of two sessions, no lookup, insertion or eviction of
\* one session reads, changes or evicts an entry of the other session's
\* caches, and each session's caches keep their capacity and their LRU order
\* as if the session ran alone.
C25_SessionsSharded == []C25_EachSessionAlone /\ [][C25_OneSessionPerStep]_vars

\* session 1 swept until its full wash cache evicted picture 1; session 2
\* washed picture 1 itself (a miss although session 1 held it then) and
\* still holds it
C25_Witness ==
    /\ ss_len[1] = MaxSweep
    /\ Len(SessionCache(1, "wash_cache")) = MAX_WASH_CACHE
    /\ ~Contains(SessionCache(1, "wash_cache"), sha256(ImageBytes(1, "jpg")))
    /\ Contains(SessionCache(2, "wash_cache"), sha256(ImageBytes(1, "jpg")))
    /\ ss_last[2].n > 0
    /\ Len(SessionCache(2, "sketch_cache")) = MaxShort

(***************************************************************************)
(* Claims about the quest schedule.                                        *)
(***************************************************************************)
\* number of quests of the bank, and of bank and reserve together
BankTotal == HOURS * QUESTS_PER_HOUR
AllQuests == BankTotal + RESERVE_SIZE

\* the hour of the n-th slot (n = 1, 2, ...)
SlotHour(n) == (s_start + n - 1) % HOURS

\* C8 as stated: per-slot independence. The schedule of one hour alone,
\* build_book_schedule(seed, h, 1), picks for h the mission that a longer
\* schedule with the same seed picks for h after k >= 1 earlier slots.
C8_SlotIndependent ==
    (s_pc = "rerun" /\ s_rerun.kind = "single") =>
        s_rerun.schedule[s_rerun.start_hour] = s_sched[s_rerun.start_hour]

\* C8 as amended: for a fixed seed and start_hour the mission of a slot does
\* not depend on how many slots follow it: a schedule with fewer slots
\* agrees with the longer one on every slot it has, and the schedule of one
\* hour alone agrees with the longer one when no slot precedes that hour.
\* (It does depend on how many slots precede it: all slots draw from the
\* one generator that is seeded once.)
C8_PrefixStable ==
    /\ (s_pc = "rerun" /\ s_rerun.kind = "prefix") =>
            /\ s_rerun.ok
            /\ s_rerun.picks = SubSeq(s_picks, 1, s_rerun.count)
            /\ DOMAIN s_rerun.schedule = {SlotHour(n) : n \in 1..s_rerun.count}
            /\ \A h \in DOMAIN s_rerun.schedule : s_rerun.schedule[h] = s_sched[h]
    /\ (s_pc = "rerun" /\ s_rerun.kind = "single" /\ s_rerun.start_hour = SlotHour(1)) =>
            s_rerun.schedule[s_rerun.start_hour] = s_sched[s_rerun.start_hour]

\* a day's schedule was re-run with fewer slots
C8_Witness ==
    /\ s_pc = "rerun"
    /\ s_count = MISSION_PAGES
    /\ s_rerun.kind = "prefix"
    /\ s_rerun.count >= 2
    /\ s_rerun.count < s_count

\* C9: no mission twice while unused ones remain. Up to 264 slots (240 of
\* the bank, 24 of the reserve) the picked ids are pairwise distinct: a slot
\* takes an unused quest of its own hour, and once the 10 quests of that
\* hour are used (from slot 241 on) an unused quest of the reserve.
C9_NoRepeat ==
    (s_pc \in {"loop", "done"} /\ Len(s_picks) <= AllQuests) =>
        /\ Cardinality(Range(s_picks)) = Len(s_picks)
        /\ s_used = Range(s_picks)
        /\ (s_picks # <<>> /\ Len(s_picks) <= BankTotal) =>
               s_picks[Len(s_picks)] \in Range(QUEST_BANK(SlotHour(Len(s_picks))))
        /\ Len(s_picks) > BankTotal =>
               s_picks[Len(s_picks)] \in Range(QUEST_RESERVE)

\* a schedule of 264 slots was returned: every quest was issued once
C9_Witness ==
    /\ s_pc = "done"
    /\ s_count = AllQuests
    /\ Len(s_picks) = AllQuests
    /\ Cardinality(s_used) = AllQuests

\* C10: graceful degradation. build_book_schedule never fails; it returns a
\* schedule with one pick per slot and an entry for every hour visited; and
\* once neither the hour's pool nor the reserve has an unused id (after 264
\* slots), the slot is filled from the reserve with an id issued before.
C10_NeverFails ==
    /\ s_pc # "error"
    /\ s_pc = "done" =>
          /\ Len(s_picks) = s_count
          /\ DOMAIN s_sched = {SlotHour(n) : n \in 1..s_count}
    /\ (s_pc \in {"loop", "done"} /\ Len(s_picks) > AllQuests) =>
          /\ s_picks[Len(s_picks)] \in Range(QUEST_RESERVE)
          /\ s_picks[Len(s_picks)] \in Range(SubSeq(s_picks, 1, Len(s_picks) - 1))

\* a schedule of more than 264 slots was returned, its last pick a repeat
C10_Witness ==
    /\ s_pc = "done"
    /\ s_count > AllQuests
    /\ Len(s_picks) = s_count
    /\ s_picks[s_count] \in Range(QUEST_RESERVE)
    /\ Cardinality(Range(s_picks)) < Len(s_picks)

(***************************************************************************)
(* Claims about the seeds of a build.                                      *)
(***************************************************************************)
BothBuilt(a, b) == a # b /\ b_res[a].ran /\ b_res[a].ok /\ b_res[b].ran /\ b_res[b].ok

SameOutcome(a, b) ==
    /\ b_res[a].seed = b_res[b].seed
    /\ b_res[a].schedule = b_res[b].schedule
    /\ b_res[a].shape_seeds = b_res[b].shape_seeds

RangeHours(a, b) ==
    IF a < b THEN {h \in DayHours : a <= h /\ h < b}
    ELSE {h \in DayHours : h >= a \/ h < b}

\* the hours of a zone: the union of its ranges
ZoneHours(z) ==
    UNION {RangeHours(z.time_ranges[k][1], z.time_ranges[k][2]) : k \in 1..Len(z.time_ranges)}

\* the zones of a table, by position, whose ranges hold hour h
ZonesAt(zones, h) == {i \in 1..Len(zones) : h \in ZoneHours(zones[i])}

\* C11: with the shipped ZONES every hour 0..23 lies in the time ranges of
\* exactly one zone (no gap, no overlap), the precomputed mapping holds that
\* zone for the hour, get_zone_for_hour(h) returns it, and the hours of the
\* eight zones partition the day.
C11_HourCoverage ==
    q_zones = ZONES =>
        /\ \A h \in DayHours :
              /\ Cardinality(ZonesAt(ZONES, h)) = 1
              /\ \A i \in ZonesAt(ZONES, h) : q_map[h] = ZONES[i]
        /\ UNION {ZoneHours(ZONES[i]) : i \in 1..Len(ZONES)} = DayHours
        /\ \A i, j \in 1..Len(ZONES) :
              i # j => ZoneHours(ZONES[i]) \cap ZoneHours(ZONES[j]) = {}
        /\ (q_call.fn = "get_zone_for_hour" /\ q_call.hour \in DayHours) =>
              /\ q_call.hour \in ZoneHours(q_call.zone)
              /\ \E i \in 1..Len(ZONES) : q_call.zone = ZONES[i]

\* the zone of 23:00 was asked of the shipped table: the range (21, 24)
C11_Witness ==
    /\ q_zones = ZONES
    /\ q_call.fn = "get_zone_for_hour"
    /\ q_call.hour = 23
    /\ q_call.zone.id = "trauminsel"

\* the requested difficulty, clamped into 1..5
Clamped(d) == IF d < 1 THEN 1 ELSE IF d > 5 THEN 5 ELSE d

HasEasy(z, d) == \E k \in 1..Len(z.missions) : z.missions[k].difficulty <= d

\* C12: pick_mission_for_time returns a mission of the hour's zone; its
\* difficulty is <= the requested difficulty (clamped into 1..5) unless the
\* zone has no such mission, and then it is some mission of the zone.
C12_DifficultyFilter ==
    q_call.fn = "pick_mission_for_time" =>
        LET z == q_map[q_call.hour % 24]
            d == Clamped(q_call.difficulty)
            m == q_call.mission
        IN  /\ \E k \in 1..Len(z.missions) :
                  /\ z.missions[k].id = m.id
                  /\ z.missions[k].difficulty = m.difficulty
            /\ HasEasy(z, d) => m.difficulty <= d
            /\ (q_call.difficulty = 1 /\ HasEasy(z, 1)) => ~(m.difficulty > 1)

\* difficulty 1 was requested for an hour of the wachturm, which has missions
\* of difficulty 1 and 2, and a mission of difficulty 1 came back
C12_Witness ==
    /\ q_zones = ZONES
    /\ q_call.fn = "pick_mission_for_time"
    /\ q_call.difficulty = 1
    /\ q_call.zone.id = "wachturm"
    /\ q_call.mission.difficulty = 1

\* difficulty 1 was requested for an hour of the werkstatt, which has no
\* mission that easy: one of its missions came back all the same
C12_WitnessFallback ==
    /\ q_zones = ZONES
    /\ q_call.fn = "pick_mission_for_time"
    /\ q_call.difficulty <= 1
    /\ q_call.zone.id = "werkstatt"
    /\ q_call.mission.difficulty > 1

\* the rules of the zone data
DuplicateZoneId(zones) ==
    \E i, j \in 1..Len(zones) : i # j /\ zones[i].id = zones[j].id

DuplicateMissionId(zones) ==
    \E i, j \in 1..Len(zones) :
        \E k \in 1..Len(zones[i].missions), l \in 1..Len(zones[j].missions) :
            /\ <<i, k>> # <<j, l>>
            /\ zones[i].missions[k].id = zones[j].missions[l].id

DifficultyOutOfRange(zones) ==
    \E i \in 1..Len(zones) : \E k \in 1..Len(zones[i].missions) :
        zones[i].missions[k].difficulty \notin 1..5

UncoveredHours(zones) == {h \in DayHours : ZonesAt(zones, h) = {}}

\* C13: validate_quest_db returns a non-empty issue list whenever the zone
\* data have a duplicated zone id, a duplicated mission id, a mission
\* difficulty outside 1..5 or an hour 0..23 that no zone covers, and an empty
\* list for the shipped ZONES.
C13_ValidationComplete ==
    q_call.fn = "validate_quest_db" =>
        /\ (\/ DuplicateZoneId(q_zones)
            \/ DuplicateMissionId(q_zones)
            \/ DifficultyOutOfRange(q_zones)
            \/ UncoveredHours(q_zones) # {}) => q_call.issues # <<>>
        /\ q_zones = ZONES => q_call.issues = <<>>

\* the table with the uncovered hour 16 was validated and no issue came back
C13_GapUnreported ==
    /\ q_zones = ZonesGap
    /\ q_call.fn = "validate_quest_db"
    /\ UncoveredHours(q_zones) = {16}
    /\ q_call.issues = <<>>

\* C14: for every integer hour, normalised modulo 24, get_zone_for_hour
\* returns a zone of the table and never fails on a missing key: the first
\* zone in ZONES order whose ranges hold the hour, and the default zone
\* ZONES[0] when no zone does.
C14_FailsClosed ==
    /\ DOMAIN q_map = DayHours
    /\ q_call.fn = "get_zone_for_hour" =>
          LET h == ((q_call.hour % 24) + 24) % 24
              at == ZonesAt(q_zones, h)
          IN  /\ h \in DOMAIN q_map
              /\ at = {} => q_call.zone = q_zones[1]
              /\ at # {} => q_call.zone = q_zones[CHOOSE i \in at : \A j \in at : i <= j]

\* a negative hour that normalises to the uncovered hour 16 was asked of the
\* table with the gap: the default zone came back
C14_Witness ==
    /\ q_zones = ZonesGap
    /\ q_call.fn = "get_zone_for_hour"
    /\ q_call.hour = 0 - 8
    /\ ZonesAt(q_zones, 16) = {}
    /\ q_call.zone = q_zones[1]

\* 17:00 lies in two zones of the table with the overlap: the earlier one in
\* ZONES order came back
C14_WitnessOverlap ==
    /\ q_zones = ZonesOverlap
    /\ q_call.fn = "get_zone_for_hour"
    /\ q_call.hour = 17 - 24
    /\ ZonesAt(q_zones, 17) = {6, 7}
    /\ q_call.zone.id = "ratssaal"

(***************************************************************************)
(* Claims about the cover and the page geometry.                           *)
(***************************************************************************)
\* inch of spine per page, in millionths, of a paper name
FactorOf(paper) == IF paper = "Schwarzweiss - Creme" THEN 2500 ELSE 2252

\* page_count * paper_factor, clamped from below to 0.001 inch
ClampedSpine(n, paper) == IF n * FactorOf(paper) < 1000 THEN 1000 ELSE n * FactorOf(paper)

Dist(a, b) == IF a >= b THEN a - b ELSE b - a

\* C15: the spine width is page_count * paper_factor clamped from below to
\* 0.001 inch, in build_cover (which builds for the fixed 26 pages) and in
\* build_cover_collage, which rounds it to the nearest multiple of 0.001
\* inch; an unknown paper name uses 0.002252; of two covers of one builder
\* on one paper the one with more pages has no narrower spine.
C15_SpineWidth ==
    /\ \A k \in 1..Len(cv_calls) :
          LET c == cv_calls[k]
          IN  /\ c.sw >= 1000
              /\ c.fn = "build_cover" => c.sw = ClampedSpine(26, c.paper)
              /\ c.fn = "build_cover_collage" =>
                    /\ c.sw % 1000 = 0
                    /\ 2 * Dist(c.sw, ClampedSpine(c.pages, c.paper)) <= 1000
    /\ (/\ Len(cv_calls) = 2
        /\ cv_calls[1].fn = cv_calls[2].fn
        /\ cv_calls[1].paper = cv_calls[2].paper
        /\ cv_calls[1].pages < cv_calls[2].pages) => cv_calls[1].sw <= cv_calls[2].sw

\* two collage covers on a paper the table does not know: no pages give the
\* minimum spine, 26 pages give 26 * 0.002252 = 0.058552, rounded to 0.059
C15_Witness ==
    /\ Len(cv_calls) = 2
    /\ cv_calls[1].fn = "build_cover_collage" /\ cv_calls[2].fn = "build_cover_collage"
    /\ cv_calls[1].paper = "Recycling"
    /\ cv_calls[1].pages = 0 /\ cv_calls[1].sw = 1000
    /\ cv_calls[2].pages = 26 /\ cv_calls[2].sw = 59000

\* C16: cover_width = 2*trim + spine_width + 2*bleed and cover_height =
\* trim + 2*bleed; the back region [bleed, bleed+trim], the spine region and
\* the front region follow each other without gap or overlap, and the front
\* region ends one bleed before the right edge of the cover.
C16_CoverGeometry ==
    \A k \in 1..Len(cv_calls) :
        LET c == cv_calls[k]
        IN  /\ c.cw = 2 * 8500000 + c.sw + 2 * 125000
            /\ c.ch = 8500000 + 2 * 125000
            /\ c.base = Rect(0, 0, c.cw, c.ch)
            /\ c.spine.x = 125000 + 8500000
            /\ c.spine.w = c.sw /\ c.sw > 0
            /\ c.front.x = c.spine.x + c.spine.w
            /\ c.front.w = 8500000
            /\ c.front.x + c.front.w = c.cw - 125000
            /\ c.fn = "build_cover_collage" =>
                  /\ c.back.x = 125000
                  /\ c.back.w = 8500000
                  /\ c.back.x + c.back.w = c.spine.x
                  /\ c.back.y = 125000 /\ c.back.h = 8500000
            /\ c.spine.y = 125000 /\ c.spine.h = 8500000
            /\ c.front.y = 125000 /\ c.front.h = 8500000

\* a collage cover of 100 pages on cream paper: spine 0.25, cover 17.5 inch
C16_Witness ==
    /\ Len(cv_calls) >= 1
    /\ cv_calls[1].fn = "build_cover_collage"
    /\ cv_calls[1].pages = 100
    /\ cv_calls[1].paper = "Schwarzweiss - Creme"
    /\ cv_calls[1].sw = 250000
    /\ cv_calls[1].cw = 17500000

HasOnSpine(c, what) == \E i \in 1..Len(c.on_spine) : c.on_spine[i] = what

\* C17: the cover builder draws rotated spine text exactly when page_count
\* >= 79, and below the threshold it renders a compact mark on the spine
\* instead.
C17_SpineMark ==
    \A k \in 1..Len(cv_calls) :
        LET c == cv_calls[k]
        IN  /\ c.fn = "build_cover_collage" => (HasOnSpine(c, "rotated_text") <=> c.pages >= 79)
            /\ c.pages < 79 => HasOnSpine(c, "compact_mark")

\* C17 as amended: build_cover_collage draws the rotated spine text exactly
\* when page_count >= the spine-text minimum (79); below the threshold the
\* spine carries the black bar alone, no text and no mark. build_cover, which
\* builds for the fixed 26 pages, writes nothing on the spine.
C17_TextThreshold ==
    \A k \in 1..Len(cv_calls) :
        LET c == cv_calls[k]
        IN  /\ c.fn = "build_cover_collage" =>
                  /\ c.pages >= 79 => c.on_spine = <<"bar", "rotated_text">>
                  /\ c.pages < 79 => c.on_spine = <<"bar">>
            /\ c.fn = "build_cover" => c.pages = 26 /\ c.on_spine = <<"bar">>

\* collage covers of 78 and of 79 pages: the first without, the second with
\* the spine text
C17_Witness ==
    /\ Len(cv_calls) = 2
    /\ cv_calls[1].fn = "build_cover_collage" /\ cv_calls[2].fn = "build_cover_collage"
    /\ cv_calls[1].pages = 78 /\ cv_calls[1].on_spine = <<"bar">>
    /\ cv_calls[2].pages = 79 /\ cv_calls[2].on_spine = <<"bar", "rotated_text">>

\* the trim size of a page format
TrimW(square) == IF square THEN 8500000 ELSE 8270000
TrimH(square) == IF square THEN 8500000 ELSE 11690000

\* C20: in KDP mode get_page_spec returns bleed = 0.125 inch, page = trim +
\* 2*bleed and safe = bleed + 0.375 inch; in preview mode bleed = 0, the page
\* is the trim size and safe = 0.5 inch; in every mode safe > bleed and
\* 2*safe < min(page_w, page_h).
C20_PageSpec ==
    ps_call.called =>
        LET s == ps_call.spec
        IN  /\ ps_call.kdp_mode =>
                  /\ s.bleed = 125000
                  /\ s.page_w = TrimW(ps_call.square) + 2 * s.bleed
                  /\ s.page_h = TrimH(ps_call.square) + 2 * s.bleed
                  /\ s.safe = s.bleed + 375000
            /\ ~ps_call.kdp_mode =>
                  /\ s.bleed = 0
                  /\ s.page_w = TrimW(ps_call.square)
                  /\ s.page_h = TrimH(ps_call.square)
                  /\ s.safe = 500000
            /\ s.safe > s.bleed
            /\ 2 * s.safe < s.page_w /\ 2 * s.safe < s.page_h

\* the page spec of the square KDP page was looked up: 8.75 inch, safe 0.5
C20_Witness ==
    /\ ps_call.called
    /\ ps_call.kdp_mode /\ ps_call.square
    /\ ps_call.spec = PageSpec(8750000, 8750000, 125000, 500000)

(***************************************************************************)
(* C18, C19: the pages of a build and the session after a failed build     *)
(***************************************************************************)
\* a file the wash and the sketch accept: readable, not empty, at most
\* 12 MB, an image of at most 25 megapixels
GoodUpload(up) ==
    /\ up.readable
    /\ up.data.kind = "image"
    /\ up.data.len >= 1
    /\ up.data.len <= MAX_UPLOAD_BYTES
    /\ up.data.px = "ok"

\* the bytes of the first n uploads
RECURSIVE SizeOfFirst(_, _)
SizeOfFirst(uploads, n) ==
    IF n = 0 THEN 0
    ELSE (IF uploads[n].readable THEN uploads[n].data.len ELSE 0)
         + SizeOfFirst(uploads, n - 1)

TooLarge(uploads) == SizeOfFirst(uploads, Len(uploads)) > 160 * 1024 * 1024

ValidInput(uploads) ==
    /\ Len(uploads) >= 1
    /\ Len(uploads) <= 48
    /\ ~TooLarge(uploads)
    /\ \A n \in 1..Len(uploads) : GoodUpload(uploads[n])

\* C18: a build on a valid list of 1 to 48 uploads emits exactly 26 pages:
\* the intro, 24 mission pages and the outro, in this order.  Mission page
\* i (0..23) shows upload i mod n at hour (6 + i) mod 24; the 24 hours are
\* pairwise distinct and each has its entry in the schedule, which is the
\* quest of the page.
C18_PageSequence ==
    \A b \in Builds :
        (b_res[b].ran /\ ValidInput(b_in[b].uploads)) =>
            LET p == b_res[b].pages
                u == b_in[b].uploads
                page(i) == p[i + 2]
            IN  /\ b_res[b].ok
                /\ Len(p) = 26
                /\ Len(p) >= 24
                /\ p[1].kind = "intro"
                /\ p[26].kind = "outro"
                /\ \A i \in 0..23 :
                      /\ page(i).kind = "mission"
                      /\ page(i).i = i
                      /\ page(i).hour = (6 + i) % 24
                      /\ page(i).img.kind = "sketch"
                      /\ page(i).img.img = u[(i % Len(u)) + 1].data.img
                      /\ page(i).hour \in DOMAIN b_res[b].schedule
                      /\ page(i).quest = b_res[b].schedule[page(i).hour]
                /\ \A i, j \in 0..23 : i # j => page(i).hour # page(j).hour

\* two good builds: one of 2 uploads, each used 12 times, and one of more
\* uploads than mission pages
C18_Witness ==
    /\ b_done = 2
    /\ b_res[1].ok /\ Len(b_in[1].uploads) = 2
    /\ b_res[2].ok /\ Len(b_in[2].uploads) = 48
    /\ Len(b_res[2].pages) = 26

\* what makes a step of build_interior fail: more than 48 uploads, more
\* than 160 MB in total, or, among the 24 uploads the pages use, a file
\* that is over 12 MB, empty, unreadable, no image or over 25 megapixels
StepFails(uploads) ==
    \/ uploads = <<>>
    \/ Len(uploads) > 48
    \/ TooLarge(uploads)
    \/ \E n \in 1..Len(uploads) : n <= 24 /\ ~GoodUpload(uploads[n])

SameHour(c1, c2) == c1.hour % 24 = c2.hour % 24

InUnit(rgb) == \A k \in 1..3 : rgb[k] >= 0 /\ rgb[k] <= COLOR_ONE

\* C21: with the shipped ZONES, the header colours of two different hours
\* of the day differ, with quest_data and without it, and every component
\* of a header colour lies in 0..1.
C21_DistinctHourColors ==
    q_zones = ZONES =>
        /\ \A n \in 1..Len(q_colors) : InUnit(q_colors[n].rgb)
        /\ \A n1, n2 \in 1..Len(q_colors) :
              ~SameHour(q_colors[n1], q_colors[n2]) => q_colors[n1].rgb # q_colors[n2].rgb

\* with quest_data, 06:00 and 07:00 are both in the wachturm and get its
\* colour (0.95, 0.95, 0.85)
C21_SharedZoneColor ==
    /\ q_zones = ZONES
    /\ Len(q_colors) = 2
    /\ q_colors[1].qd /\ q_colors[2].qd
    /\ q_colors[1].hour = 6 /\ q_colors[2].hour = 7
    /\ q_colors[1].rgb = q_colors[2].rgb
    /\ q_colors[1].rgb = <<228000, 228000, 204000>>

(***************************************************************************)
(* C22, C23: the trainer export                                            *)
(***************************************************************************)
HasText(s) == s.core # ""

\* the list the vocabulary of a KDP export is read from: the vocab of a
\* trainer_v2 payload, else the items
VocabSource(call) ==
    IF ~call.res.bridged /\ ~call.data.vocab.none /\ call.data.vocab.list # <<>>
    THEN [from |-> "vocab", list |-> call.data.vocab.list]
    ELSE [from |-> "items",
          list |-> IF call.data.items.none THEN <<>> ELSE call.data.items.list]

\* the positions of the usable entries: dicts with a word or a translation
\* (vocab), dicts with a term (items)
UsableAt(src) ==
    {i \in 1..Len(src.list) :
        /\ src.list[i].is_dict
        /\ IF src.from = "vocab"
           THEN HasText(src.list[i].word) \/ HasText(src.list[i].translation)
           ELSE HasText(src.list[i].term)}

\* the k-th usable position, in input order
KthUsable(src, k) ==
    CHOOSE i \in UsableAt(src) : Cardinality({j \in UsableAt(src) : j <= i}) = k

ExpectedMin(call) == IF call.kw.given THEN call.kw.min_pages ELSE 24

SupportedModes == {"A4 Arbeitsblatt", "QR Lernkarten", "KDP Buch"}

\* what run_export does not support; module and mode count without the
\* blanks around them, as run_export strips both
Rejected(call) ==
    \/ ~call.data.is_dict
    \/ /\ call.data.module.core = "trainer_v2"
       /\ call.mode.core \notin SupportedModes
    \/ /\ call.data.module.core # "trainer_v2"
       /\ call.data.items.none \/ call.mode.core \notin SupportedModes

\* C23: run_export raises ValueError, returns no bytes and calls no
\* exporter when data is no dict, when the module is trainer_v2 and the
\* mode is none of the three, and when the payload is neither trainer_v2
\* nor a legacy payload with an items list, or is legacy with another mode;
\* every other request reaches the exporter of its mode.
C23_RejectsUnsupported ==
    x_call.called =>
        IF Rejected(x_call)
        THEN /\ x_call.res.raised = "ValueError"
             /\ x_call.res.exporter = ""
             /\ x_call.res.doc = <<>>
        ELSE /\ x_call.res.raised = ""
             /\ x_call.res.exporter =
                    (IF x_call.mode.core = "A4 Arbeitsblatt" THEN "trainer_a4"
                     ELSE IF x_call.mode.core = "QR Lernkarten" THEN "trainer_cards"
                     ELSE "trainer_kdp")
             /\ x_call.res.bridged = (x_call.data.module.core # "trainer_v2")

\* a legacy payload with an items list and the mode "PDF"
C23_Witness ==
    /\ x_call.called
    /\ x_call.data.is_dict
    /\ x_call.data.module = Str("")
    /\ ~x_call.data.items.none
    /\ x_call.mode = Str("PDF")
    /\ x_call.res.raised = "ValueError"
    /\ x_call.res.exporter = ""

(***************************************************************************)
(* C26: audience adaptation                                                *)
(***************************************************************************)
SameMission(a, b) == a.id = b.id /\ a.xp = b.xp /\ a.difficulty = b.difficulty

\* C26: audience adaptation changes text only. The mission that
\* pick_mission_for_time returns has the id, xp and difficulty of a mission
\* of the hour's zone as the table holds it; for audience "kid" it is that
\* mission unchanged; an audience other than "kid" and "adult" gets the
\* senior wording, exactly as "senior" does; and for the same hour,
\* difficulty and seed every audience gets a mission of the same id.
C26_AudienceTextOnly ==
    q_call.fn = "pick_mission_for_time" =>
        LET m == q_call.mission
            z == q_call.zone
        IN  /\ \E k \in 1..Len(z.missions) :
                  /\ SameMission(z.missions[k], m)
                  /\ q_call.audience = "kid" => m = z.missions[k]
            /\ q_call.audience = "adult" => m.wording = "adult"
            /\ q_call.audience \notin {"kid", "adult"} =>
                  /\ m.wording = "senior"
                  /\ m = pick_mission_for_time(q_map, q_call.hour, q_call.difficulty,
                                                q_call.seed, "senior")
            /\ \A a \in Audiences :
                  pick_mission_for_time(q_map, q_call.hour, q_call.difficulty,
                                        q_call.seed, a).id = m.id

\* audience "teen" asked for a mission of the arena and got one of its
\* missions, id, xp and difficulty as shipped, in the senior wording
C26_Witness ==
    /\ q_zones = ZONES
    /\ q_call.fn = "pick_mission_for_time"
    /\ q_call.audience = "teen"
    /\ q_call.zone.id = "arena"
    /\ q_call.mission.wording = "senior"
    /\ q_call.mission.xp > 0
    /\ \E k \in 1..Len(q_call.zone.missions) :
          SameMission(q_call.zone.missions[k], q_call.mission)

(***************************************************************************)
(* C27: the index selection of the cover collage                           *)
(***************************************************************************)
PairwiseDistinct(s) == \A a, b \in 1..Len(s) : a # b => s[a] # s[b]

\* what a returned list must be when there are enough uploads
GoodPick ==
    (pk_pc = "done" /\ pk_args.n_total >= 1 /\ pk_args.need <= pk_args.n_total) =>
        /\ Len(pk_result) = pk_args.need
        /\ PairwiseDistinct(pk_result)
        /\ \A k \in 1..Len(pk_result) : pk_result[k] \in 0..(pk_args.n_total - 1)
        /\ (pk_args.hero_first /\ pk_args.need >= 1) => pk_result[1] = 0

\* C27: the index selection terminates. For every n_total, need, seed and
\* hero_first the call of _pick_indices returns, also when need > n_total;
\* when need <= n_total it returns exactly need pairwise distinct indices of
\* 0..n_total-1, index 0 first when hero_first.
C27_PickTerminates == <>(pk_pc = "done") /\ []GoodPick

\* two uploads, six tiles: out holds every index there is and is still too
\* short, so every further iteration finds its idx in out already
C27_LoopForever ==
    /\ pk_pc = "loop"
    /\ pk_args.n_total = 2
    /\ pk_args.need = 6
    /\ Range(pk_out) = 0..(pk_args.n_total - 1)
    /\ Len(pk_out) < pk_args.need

(***************************************************************************)
(* C28: failed transforms and the caches                                   *)
(***************************************************************************)
\* the call that was just recorded, made once more on the caches as they
\* are now
Again(fn) ==
    IF fn = "wash" THEN _wash_upload_to_bytes(wash_cache, last.wash.input)
    ELSE _get_sketch_cached(sketch_cache, last.sketch.input[1],
                            last.sketch.input[2], last.sketch.input[3])

\* C28: a failed transform leaves the caches unchanged. When a call of
\* _wash_upload_to_bytes or _get_sketch_cached raises, both caches are
\* entry for entry and in order what they were before the call (nothing
\* inserted, promoted or evicted), no entry stands under the key of the
\* failed input, and the same request made again fails again without being
\* answered from the cache.
C28_FailureLeavesCaches ==
    [][ \A fn \in {"wash", "sketch"} :
          (last'[fn].n = last[fn].n + 1 /\ ~last'[fn].ok) =>
              /\ wash_cache' = wash_cache
              /\ sketch_cache' = sketch_cache
              /\ ~last'[fn].inserted
              /\ last'[fn].evicted = <<>>
              /\ ~Contains(CacheOf(fn)', last'[fn].key)
              /\ ~Again(fn)'.ok
              /\ Again(fn)'.ran = last'[fn].ran
              /\ Again(fn)'.cache = CacheOf(fn)' ]_vars

\* undecodable bytes were uploaded while both caches were full: the wash
\* ran and raised, and both caches are still full
C28_Witness ==
    /\ c_note = <<"wash", "corrupt">>
    /\ ~last.wash.ok
    /\ last.wash.ran
    /\ Len(wash_cache) = MAX_WASH_CACHE
    /\ Len(sketch_cache) = MAX_SKETCH_CACHE
    /\ ~Contains(wash_cache, last.wash.key)

(***************************************************************************)
(* C29: no repeated work within one build                                  *)
(***************************************************************************)
RunsOf(b, fn) == SelectSeq(b_res[b].runs, LAMBDA r : r.fn = fn)

\* the contents of the uploads a build was given
UploadContents(b) == {b_in[b].uploads[n].data : n \in 1..Len(b_in[b].uploads)}

\* the washed contents of those uploads that can be washed
WashedContents(b) ==
    {_wash_bytes(raw).val : raw \in {x \in UploadContents(b) : _wash_bytes(x).ok}}

\* C29: within one build no work is repeated. Whatever the caches held when
\* build_interior started, the wash transform ran at most once per upload
\* content and the sketch transform at most once per washed content, and
\* every entry the build inserted is still in its cache when the build ends.
C29_NoRepeatedWork ==
    \A b \in Builds :
        b_res[b].ran =>
            /\ PairwiseDistinct(b_res[b].runs)
            /\ \A n \in 1..Len(b_res[b].runs) :
                  LET r == b_res[b].runs[n]
                  IN  /\ r.fn = "wash" => \E raw \in UploadContents(b) : r.key = sha256(raw)
                      /\ r.fn = "sketch" =>
                            \E washed \in WashedContents(b) :
                                r.key = <<sha256(washed), TargetSide, TargetSide>>
                      /\ r.inserted =>
                            Contains(IF r.fn = "wash" THEN b_res[b].wc ELSE b_res[b].sc, r.key)
            /\ Len(RunsOf(b, "wash")) <= Cardinality(UploadContents(b))
            /\ Len(RunsOf(b, "sketch")) <= Cardinality(WashedContents(b))
            /\ Len(b_res[b].runs) <= 2 * MISSION_PAGES

\* both caches were full, picture 1 their oldest entry: the first build of
\* 24 pictures found picture 1 cached, ran the wash and the sketch once for
\* each of the other 23 and left both caches full; the second build, 48
\* uploads of which 24 are used, ran nothing at all
C29_Witness ==
    /\ b_done = 2
    /\ Len(b_in[1].uploads) = MISSION_PAGES
    /\ Len(b_in[2].uploads) = MAX_UPLOADS
    /\ b_res[1].ok /\ b_res[2].ok
    /\ Len(RunsOf(1, "wash")) = MISSION_PAGES - 1
    /\ Len(RunsOf(1, "sketch")) = MISSION_PAGES - 1
    /\ b_res[2].runs = <<>>
    /\ Len(wash_cache) = MAX_WASH_CACHE
    /\ Len(sketch_cache) = MAX_SKETCH_CACHE

(***************************************************************************)
(* C30: the fair-use limit                                                 *)
(***************************************************************************)
\* the rows of the client logged in the 24 hours that end with row n
InWindowOf(n) == {k \in 1..Len(qt_log) : qt_log[k] > qt_log[n] - WINDOW_HOURS /\ k <= n}

\* C30: the fair-use limit. For a client that is no supporter and not in dev
\* mode, the builds logged for its address within any 24 hours never exceed
\* its limit (3, or the quota of its community pass), also when it runs
\* builds from several sessions at once.
C30_FairUseLimit ==
    \A n \in 1..Len(qt_log) : Cardinality(InWindowOf(n)) <= user_limit(qt_pass)

\* a free client with two rows in the table started a build in each of two
\* sessions; both runs read builds_used = 2, both builds were logged, and
\* the table holds four rows of the same day
C30_FourBuildsInADay ==
    /\ qt_pass = ""
    /\ Len(qt_log) = FREE_LIMIT + 1
    /\ qt_log[Len(qt_log)] - qt_log[1] < WINDOW_HOURS
    /\ \A s \in QuotaSessions : qt_run[s].at = "idle" /\ qt_run[s].builds_used = FREE_LIMIT - 1

====
